---- MODULE Spec2Model ----
(***************************************************************************)
(* A model of aur-helper.py (kirey-arch/aur-helper): the search-output     *)
(* parser (AURHelper.search_packages), the fuzzy resolution step           *)
(* (difflib.get_close_matches as called by search_similar_interactive),    *)
(* validate_package_name, run_command, and the interactive session of      *)
(* AURHelper.run with its menus and its install, remove and update         *)
(* operations.                                                             *)
(*                                                                         *)
(* Text is modelled as Python does it: a str is a sequence of one-         *)
(* character strings, and strip / split / splitlines / startswith / "in"   *)
(* are operators on such sequences.                                        *)
(***************************************************************************)
EXTENDS Integers, Sequences, FiniteSets, TLC

VARIABLES
    \* ---- search_packages (one invocation) ----
    stdout,        \* raw text the search command printed
    ppc,           \* position in search_packages: "start", "scan", "done", "raised"
    lines,         \* output.splitlines()
    idx,           \* the loop index i (1-based here)
    packages,      \* the list of package dicts built so far
    origin,        \* history: origin[k] = index of the line that appended packages[k]
    \* ---- the fuzzy resolution step of search_similar_interactive ----
    query,         \* the name the user typed
    candidates,    \* [pkg["name"] for pkg in packages]
    max_results,   \* config max_search_results (n)
    cutoff,        \* config search_cutoff, a fraction <<numerator, denominator>>
    rpc,           \* "start", "done"
    similar,       \* what get_close_matches returned
    \* ---- run_command (one invocation) ----
    proc,           \* how the subprocess ends: exit code, timeout or another fault
    proc_stdout,    \* what the subprocess printed
    capture_output, \* the capture_output argument
    cpc,            \* position in run_command: "start", "try", "returned", "raised"
    returned,       \* the (success, output) returned
    log,            \* history: the levels of the log entries written
    \* ---- the interactive session (AURHelper.run) ----
    pc,            \* where the session waits: a menu, a prompt or a command
    manager,       \* the manager chosen in the manager menu
    config,        \* Config.config: default_manager and the keys the operations read
    op,            \* the operation in progress or last run
    mode,          \* the removal mode of a remove operation
    typed,         \* the package name as entered at the prompt
    package,       \* the package name in hand (typed, or selected from the list)
    pat,           \* check_package_exists: index of the pattern to search next
    choices,       \* search_similar_interactive: the list offered (similar)
    backup_file,   \* whether backup_system_state wrote a file in this operation
    commands,      \* update_system: the update commands not run yet
    trace,         \* history: the events of the operation, in order
    result,        \* what the operation returned: "none", "true", "false"
    msg,           \* the last notice printed to the user
    selection,     \* the last selection read at a numbered menu (stripped)
    depth          \* the calls of show_package_manager_menu nested in the first

parseVars == <<stdout, ppc, lines, idx, packages, origin>>
resolveVars == <<query, candidates, max_results, cutoff, rpc, similar>>
sessionVars == <<pc, manager, config, op, mode, typed, package, pat,
                 choices, backup_file, commands, trace, result, msg, selection,
                 depth>>

runVars == <<proc, proc_stdout, capture_output, cpc, returned, log>>

vars == <<parseVars, resolveVars, runVars, sessionVars>>

\* no run_command invocation is being followed
RunIdle ==
    /\ proc = "none" /\ proc_stdout = <<>> /\ capture_output = FALSE
    /\ cpc = "idle" /\ returned = "none" /\ log = <<>>

-----------------------------------------------------------------------------
(* Bounds of the model *)

\* the largest number of lines of a search output
MaxLines == 3

\* the largest number of candidate names handed to the fuzzy resolver
MaxCands == 3

\* the largest max_search_results tried besides the default
MaxN == 2

\* the longest package name tried with every character of the alphabet in
\* every position
MaxShort == 3

\* the largest return code of a subprocess tried
MaxExit == 3

\* the re-displays of the manager menu followed from the start of a session
MaxRedisplays == 1

\* the re-displays of the manager menu followed up to the deepest one
MaxDeep == 3

-----------------------------------------------------------------------------
(* Python str operations *)

\* the whitespace characters of the model's alphabet (str.isspace)
IsSpace(c) == c \in {" ", "\t", "\n"}

RECURSIVE LStrip(_)
LStrip(s) ==
    IF s = <<>> THEN s
    ELSE IF IsSpace(Head(s)) THEN LStrip(Tail(s)) ELSE s

RECURSIVE RStrip(_)
RStrip(s) ==
    IF s = <<>> THEN s
    ELSE IF IsSpace(s[Len(s)]) THEN RStrip(SubSeq(s, 1, Len(s) - 1)) ELSE s

\* str.strip()
Strip(s) == RStrip(LStrip(s))

\* c in s, for a single character c
Contains(s, c) == \E k \in 1..Len(s) : s[k] = c

\* s.startswith(p)
StartsWith(s, p) == Len(s) >= Len(p) /\ SubSeq(s, 1, Len(p)) = p

\* s.endswith(p)
EndsWith(s, p) == Len(s) >= Len(p) /\ SubSeq(s, Len(s) - Len(p) + 1, Len(s)) = p

\* p in s, for a string p
HasSubstring(s, p) ==
    \E k \in 1..(Len(s) - Len(p) + 1) : SubSeq(s, k, k + Len(p) - 1) = p

\* index of the first character of s satisfying the test, 0 if none
FirstNewline(s) ==
    IF Contains(s, "\n") THEN CHOOSE k \in 1..Len(s) :
            s[k] = "\n" /\ \A m \in 1..(k - 1) : s[m] # "\n"
    ELSE 0

FirstSpace(s) ==
    IF \E k \in 1..Len(s) : IsSpace(s[k]) THEN CHOOSE k \in 1..Len(s) :
            IsSpace(s[k]) /\ \A m \in 1..(k - 1) : ~IsSpace(s[m])
    ELSE 0

FirstOf(s, c) ==
    IF Contains(s, c) THEN CHOOSE k \in 1..Len(s) :
            s[k] = c /\ \A m \in 1..(k - 1) : s[m] # c
    ELSE 0

\* str.splitlines()
RECURSIVE SplitLines(_)
SplitLines(s) ==
    IF s = <<>> THEN <<>>
    ELSE LET k == FirstNewline(s) IN
         IF k = 0 THEN <<s>>
         ELSE <<SubSeq(s, 1, k - 1)>> \o SplitLines(SubSeq(s, k + 1, Len(s)))

\* str.split(): the whitespace-separated tokens
RECURSIVE Split(_)
Split(s) ==
    LET t == LStrip(s) IN
    IF t = <<>> THEN <<>>
    ELSE LET k == FirstSpace(t) IN
         IF k = 0 THEN <<t>>
         ELSE <<SubSeq(t, 1, k - 1)>> \o Split(SubSeq(t, k, Len(t)))

\* s.split(c, 1): at most two pieces, cut at the first c
SplitOnce(s, c) ==
    LET k == FirstOf(s, c) IN
    IF k = 0 THEN <<s>>
    ELSE <<SubSeq(s, 1, k - 1), SubSeq(s, k + 1, Len(s))>>

\* "\n".join(ls)
RECURSIVE JoinLines(_)
JoinLines(ls) ==
    IF ls = <<>> THEN <<>>
    ELSE IF Len(ls) = 1 THEN ls[1]
    ELSE ls[1] \o <<"\n">> \o JoinLines(Tail(ls))

-----------------------------------------------------------------------------
(* AURHelper.search_packages *)

Unknown == <<"u", "n", "k", "n", "o", "w", "n">>

\* the exceptions the except clause of the loop body catches (line 310)
Caught == {"IndexError", "ValueError"}

\* The try block of the loop body (lines 290-309) for the stripped line:
\* [exc, recs], exc the exception it ends with ("none" if it completes) and
\* recs the records it appended. parts[0] and parts[1] are read under
\* len(parts) >= 2; the unpacking repo, name = ... needs exactly two pieces.
TryBody(ls, i, line) ==
    LET parts == Split(line) IN
    IF Len(parts) >= 2 THEN
        LET repo_package == parts[1]
            version == IF Len(parts) > 1 THEN parts[2] ELSE Unknown
        IN  IF Contains(repo_package, "/") THEN
                LET rn == SplitOnce(repo_package, "/")
                    description ==
                        IF i + 1 <= Len(ls) /\ StartsWith(ls[i + 1], <<" ">>)
                        THEN Strip(ls[i + 1]) ELSE <<>>
                IN  IF Len(rn) # 2 THEN [exc |-> "ValueError", recs |-> <<>>]
                    ELSE [exc |-> "none",
                          recs |-> << [name |-> rn[2], repo |-> rn[1],
                                       version |-> version,
                                       description |-> description] >>]
            ELSE [exc |-> "none", recs |-> <<>>]
    ELSE [exc |-> "none", recs |-> <<>>]

\* The body of the while loop for line i (lines 287-311): [exc, recs].
LoopBody(ls, i) ==
    LET line == Strip(ls[i]) IN
    IF Contains(line, "/") /\ ~StartsWith(line, <<" ">>) THEN
        LET r == TryBody(ls, i, line) IN
        IF r.exc \in Caught THEN [exc |-> "none", recs |-> <<>>] ELSE r
    ELSE [exc |-> "none", recs |-> <<>>]

\* the records line i appends (none or one)
ParseLine(ls, i) == LoopBody(ls, i).recs

\* a bug to tell apart: the scan gives up at the first line that yields nothing
NextIndexAbort(ls, i) == IF ParseLine(ls, i) = <<>> THEN Len(ls) + 1 ELSE i + 1

\* line 312: i += 1
NextIndex(ls, i) == i + 1

\* the whole loop, from line i on
RECURSIVE ScanFrom(_, _)
ScanFrom(ls, i) ==
    IF i > Len(ls) THEN <<>> ELSE ParseLine(ls, i) \o ScanFrom(ls, NextIndex(ls, i))

\* search_packages, given what run_command returned
SearchPackages(success, output) ==
    IF ~success \/ output = <<>> THEN <<>> ELSE ScanFrom(SplitLines(output), 1)

\* lines a package manager may print
HdrA     == <<"r", "/", "a", " ", "1">>
HdrNoVer == <<"r", "/", "b">>
DescSp   == <<" ", "d">>
DescTab  == <<"\t", "d">>
DescSl   == <<" ", "x", "/", "y", " ", "z">>
HdrTwoSl == <<"a", "/", "b", "/", "c", " ", "1">>
NoSlash  == <<"n", " ", "b", "/", "c">>
SampleLines == {HdrA, HdrNoVer, DescSp, DescTab, DescSl, HdrTwoSl, NoSlash, <<>>}

SampleOutputs ==
    { JoinLines(ls) : ls \in UNION { [1..n -> SampleLines] : n \in 0..MaxLines } }

ParseInit ==
    /\ stdout \in SampleOutputs
    /\ ppc = "start"
    /\ lines = <<>>
    /\ idx = 1
    /\ packages = <<>>
    /\ origin = <<>>
    /\ query = <<>> /\ candidates = <<>> /\ max_results = 1
    /\ cutoff = <<0, 1>> /\ rpc = "idle" /\ similar = <<>>
    /\ RunIdle
    /\ pc = "idle" /\ manager = "none" /\ config = <<>>
    /\ op = "none" /\ mode = "none" /\ typed = <<>> /\ package = <<>> /\ pat = 1
    /\ choices = <<>> /\ backup_file = FALSE /\ commands = <<>> /\ trace = <<>>
    /\ result = "none" /\ msg = "none" /\ selection = <<>> /\ depth = 0

\* lines 278-284: run the search command, return [] on failure or empty output,
\* otherwise split the (stripped) output into lines
RunSearch ==
    /\ ppc = "start"
    /\ \E success \in BOOLEAN :
         LET output == Strip(stdout) IN
         IF ~success \/ output = <<>>
         THEN /\ ppc' = "done"
              /\ UNCHANGED lines
         ELSE /\ ppc' = "scan"
              /\ lines' = SplitLines(output)
    /\ idx' = 1
    /\ UNCHANGED <<stdout, packages, origin, resolveVars, runVars, sessionVars>>

\* lines 286-312: one iteration of the while loop; an exception the except
\* clause does not catch would leave search_packages ("raised")
ScanLine ==
    /\ ppc = "scan"
    /\ idx <= Len(lines)
    /\ LET r == LoopBody(lines, idx) IN
         IF r.exc # "none"
         THEN /\ ppc' = "raised"
              /\ UNCHANGED <<idx, packages, origin>>
         ELSE /\ packages' = packages \o r.recs
              /\ origin' = origin \o [k \in 1..Len(r.recs) |-> idx]
              /\ idx' = NextIndex(lines, idx)
              /\ ppc' = ppc
    /\ UNCHANGED <<stdout, lines, resolveVars, runVars, sessionVars>>

\* line 314: the loop is over
ScanReturn ==
    /\ ppc = "scan"
    /\ idx > Len(lines)
    /\ ppc' = "done"
    /\ UNCHANGED <<stdout, lines, idx, packages, origin, resolveVars, runVars, sessionVars>>

ParseNext == RunSearch \/ ScanLine \/ ScanReturn

SpecParse == ParseInit /\ [][ParseNext]_vars

-----------------------------------------------------------------------------
(* difflib.get_close_matches, as search_similar_interactive calls it *)

Letters == <<"a", "b", "c", "d", "e", "f", "g", "h", "i", "j", "k", "l", "m",
             "n", "o", "p", "q", "r", "s", "t", "u", "v", "w", "x", "y", "z">>
Digits == <<"0", "1", "2", "3", "4", "5", "6", "7", "8", "9">>
UpperLetters == <<"A", "B", "C", "D", "E", "F", "G", "H", "I", "J", "K", "L", "M",
                  "N", "O", "P", "Q", "R", "S", "T", "U", "V", "W", "X", "Y", "Z">>

\* ord(c) for the characters of the model's alphabet
CodePoint(c) ==
    IF \E k \in 1..Len(Letters) : Letters[k] = c
    THEN 96 + (CHOOSE k \in 1..Len(Letters) : Letters[k] = c)
    ELSE IF \E k \in 1..Len(Digits) : Digits[k] = c
    THEN 47 + (CHOOSE k \in 1..Len(Digits) : Digits[k] = c)
    ELSE IF \E k \in 1..Len(UpperLetters) : UpperLetters[k] = c
    THEN 64 + (CHOOSE k \in 1..Len(UpperLetters) : UpperLetters[k] = c)
    ELSE CASE c = "\t" -> 9 [] c = "\n" -> 10 [] c = " " -> 32
           [] c = "+" -> 43 [] c = "-" -> 45 [] c = "." -> 46
           [] c = "/" -> 47 [] c = "@" -> 64 [] c = "_" -> 95

\* s < t as Python compares str: by code point, a proper prefix first
RECURSIVE StrLess(_, _)
StrLess(s, t) ==
    IF t = <<>> THEN FALSE
    ELSE IF s = <<>> THEN TRUE
    ELSE IF Head(s) = Head(t) THEN StrLess(Tail(s), Tail(t))
    ELSE CodePoint(Head(s)) < CodePoint(Head(t))

\* list(dict.fromkeys(names)): duplicates dropped, first-seen order kept
RECURSIVE DedupeFrom(_, _)
DedupeFrom(names, seen) ==
    IF names = <<>> THEN <<>>
    ELSE IF Head(names) \in seen THEN DedupeFrom(Tail(names), seen)
    ELSE <<Head(names)>> \o DedupeFrom(Tail(names), seen \cup {Head(names)})

Dedupe(names) == DedupeFrom(names, {})

\* the number of positions of s that hold c
CountOf(s, c) == Cardinality({k \in 1..Len(s) : s[k] = c})

\* SequenceMatcher.__chain_b with autojunk, the default, which is how
\* get_close_matches builds its matcher: when b has 200 elements or more, the
\* elements that occur more than len(b) // 100 + 1 times in it are "popular"
\* and are left out of the index b2j
Popular(b) ==
    IF Len(b) >= 200
    THEN {c \in {b[k] : k \in 1..Len(b)} : CountOf(b, c) > (Len(b) \div 100) + 1}
    ELSE {}

\* the length of the common run of a and b that starts at a[i], b[j] and stays
\* below ahi, bhi, as the index b2j shows it: it ends before an element that
\* is not indexed
RECURSIVE IndexedRunLen(_, _, _, _, _, _, _)
IndexedRunLen(a, b, i, j, ahi, bhi, unindexed) ==
    IF i < ahi /\ j < bhi /\ a[i] = b[j] /\ b[j] \notin unindexed
    THEN 1 + IndexedRunLen(a, b, i + 1, j + 1, ahi, bhi, unindexed) ELSE 0

\* the length of the common run of a and b that ends just before a[i], b[j]
\* and stays at or above alo, blo
RECURSIVE BackLen(_, _, _, _, _, _)
BackLen(a, b, i, j, alo, blo) ==
    IF i > alo /\ j > blo /\ a[i - 1] = b[j - 1]
    THEN 1 + BackLen(a, b, i - 1, j - 1, alo, blo) ELSE 0

\* SequenceMatcher.find_longest_match(alo, ahi, blo, bhi) of the matcher
\* get_close_matches builds (isjunk None, autojunk on, so that the popular
\* elements of b are left out of b2j): the longest block a[i..i+k) = b[j..j+k) of indexed
\* elements in the ranges, of those the one that starts earliest in a, and of
\* those the one earliest in b (<<alo, blo, 0>> when there is none); the
\* block is then extended to the left and to the right as far as the two
\* sequences agree, over any elements. Ranges are half-open, indices 1-based.
FindLongestMatch(a, b, alo, ahi, blo, bhi) ==
    LET blocks == {<<alo, blo, 0>>} \cup
                  {<<i, j, IndexedRunLen(a, b, i, j, ahi, bhi, Popular(b))>> :
                       i \in alo..(ahi - 1), j \in blo..(bhi - 1)}
        before(m, q) == \/ m[3] > q[3]
                        \/ /\ m[3] = q[3]
                           /\ \/ m[1] < q[1]
                              \/ m[1] = q[1] /\ m[2] <= q[2]
        extended(m, back, forth) == <<m[1] - back, m[2] - back, back + m[3] + forth>>
        around(m) == extended(m, BackLen(a, b, m[1], m[2], alo, blo),
                              IndexedRunLen(a, b, m[1] + m[3], m[2] + m[3], ahi, bhi, {}))
    IN  around(CHOOSE m \in blocks : \A q \in blocks : before(m, q))

\* the total size of SequenceMatcher.get_matching_blocks(): the longest block,
\* then the same to its left and to its right
RECURSIVE Matches(_, _, _, _, _, _)
Matches(a, b, alo, ahi, blo, bhi) ==
    LET around(i, j, k) ==
            IF k = 0 THEN 0
            ELSE k
                 + (IF alo < i /\ blo < j
                    THEN Matches(a, b, alo, i, blo, j) ELSE 0)
                 + (IF i + k < ahi /\ j + k < bhi
                    THEN Matches(a, b, i + k, ahi, j + k, bhi) ELSE 0)
        total(m) == around(m[1], m[2], m[3])
    IN  total(FindLongestMatch(a, b, alo, ahi, blo, bhi))

\* _calculate_ratio(matches, length) as the fraction <<2 * matches, length>>
\* (1.0 when length is 0)
CalculateRatio(matches, length) ==
    IF length > 0 THEN <<2 * matches, length>> ELSE <<1, 1>>

\* SequenceMatcher(a = x, b = word).ratio()
Ratio(x, word) ==
    CalculateRatio(Matches(x, word, 1, Len(x) + 1, 1, Len(word) + 1),
                   Len(x) + Len(word))

Min(m, n) == IF m <= n THEN m ELSE n

RECURSIVE SumMin(_, _, _)
SumMin(cs, x, word) ==
    IF cs = {} THEN 0
    ELSE LET c == CHOOSE d \in cs : TRUE IN
         Min(CountOf(x, c), CountOf(word, c)) + SumMin(cs \ {c}, x, word)

\* SequenceMatcher.quick_ratio(): the multiset intersection of the characters
QuickRatio(x, word) ==
    CalculateRatio(SumMin({x[k] : k \in 1..Len(x)}, x, word), Len(x) + Len(word))

\* SequenceMatcher.real_quick_ratio(): from the lengths alone
RealQuickRatio(x, word) ==
    CalculateRatio(Min(Len(x), Len(word)), Len(x) + Len(word))

\* r >= c and r > c for fractions with positive denominators
FracGE(r, c) == r[1] * c[2] >= c[1] * r[2]
FracGT(r, c) == r[1] * c[2] > c[1] * r[2]

\* the test of get_close_matches that keeps x
Qualifies(x, word, c) ==
    /\ FracGE(RealQuickRatio(x, word), c)
    /\ FracGE(QuickRatio(x, word), c)
    /\ FracGE(Ratio(x, word), c)

\* (score, x) tuples: p > q
TupleGT(p, q) ==
    \/ FracGT(p[1], q[1])
    \/ /\ ~FracGT(q[1], p[1])
       /\ StrLess(q[2], p[2])

\* the sequence without its k-th element
RemoveAt(seq, k) == SubSeq(seq, 1, k - 1) \o SubSeq(seq, k + 1, Len(seq))

\* heapq.nlargest(n, result): sorted(result, reverse = True)[:n]
RECURSIVE NLargest(_, _)
NLargest(n, scored) ==
    IF n = 0 \/ scored = <<>> THEN <<>>
    ELSE LET k == CHOOSE m \in 1..Len(scored) :
                    \A o \in 1..Len(scored) : ~TupleGT(scored[o], scored[m])
         IN  <<scored[k]>> \o NLargest(n - 1, RemoveAt(scored, k))

\* the scored candidates that pass the cutoff, in candidate order
RECURSIVE Scored(_, _, _)
Scored(word, possibilities, c) ==
    IF possibilities = <<>> THEN <<>>
    ELSE LET x == Head(possibilities) IN
         (IF Qualifies(x, word, c) THEN << <<Ratio(x, word), x>> >> ELSE <<>>)
         \o Scored(word, Tail(possibilities), c)

\* get_close_matches(word, possibilities, n, cutoff), for n > 0 and
\* 0 <= cutoff <= 1
GetCloseMatches(word, possibilities, n, c) ==
    LET best == NLargest(n, Scored(word, possibilities, c)) IN
    [k \in 1..Len(best) |-> best[k][2]]

\* lines 326-332: the names, de-duplicated, then the close matches of the query
Resolve(word, names, n, c) == GetCloseMatches(word, Dedupe(names), n, c)

\* config defaults (lines 67, 71-72)
DefaultManager == "pacman"
DefaultMaxResults == 10
DefaultCutoff == <<3, 10>>

\* the largest max_search_results the configuration menu accepts (line 694)
MaxResultsLimit == 50

Firefox == <<"f", "i", "r", "e", "f", "o", "x">>
FirefoxEsr == <<"f", "i", "r", "e", "f", "o", "x", "-", "e", "s", "r">>
Chromium == <<"c", "h", "r", "o", "m", "i", "u", "m">>

\* package names and queries tried
SampleNames == {<<"a", "b">>, <<"a", "b", "c">>, <<"a", "b", "d">>, <<"b", "a">>, <<"x">>}
SampleQueries == {<<"a", "b">>, <<"b", "c">>}
SampleCutoffs == {<<0, 1>>, DefaultCutoff, <<4, 5>>, <<1, 1>>}

ResolveInit ==
    /\ \/ /\ query \in SampleQueries
          /\ candidates \in UNION { [1..m -> SampleNames] : m \in 0..MaxCands }
          /\ max_results \in 1..MaxN
          /\ cutoff \in SampleCutoffs
       \/ /\ query = Firefox
          /\ candidates = <<Firefox, FirefoxEsr, Chromium>>
          /\ max_results = DefaultMaxResults
          /\ cutoff = DefaultCutoff
       \/ /\ query = [k \in 1..200 |-> "a"]
          /\ candidates = << <<"b", "a">>, <<"c">> >>
          /\ max_results \in 1..MaxN
          /\ cutoff = <<0, 1>>
    /\ rpc = "start"
    /\ similar = <<>>
    /\ RunIdle
    /\ stdout = <<>> /\ ppc = "idle" /\ lines = <<>> /\ idx = 1
    /\ packages = <<>> /\ origin = <<>>
    /\ pc = "idle" /\ manager = "none" /\ config = <<>>
    /\ op = "none" /\ mode = "none" /\ typed = <<>> /\ package = <<>> /\ pat = 1
    /\ choices = <<>> /\ backup_file = FALSE /\ commands = <<>> /\ trace = <<>>
    /\ result = "none" /\ msg = "none" /\ selection = <<>> /\ depth = 0

\* lines 325-332
ResolveStep ==
    /\ rpc = "start"
    /\ similar' = Resolve(query, candidates, max_results, cutoff)
    /\ rpc' = "done"
    /\ UNCHANGED <<query, candidates, max_results, cutoff, parseVars, runVars, sessionVars>>

ResolveNext == ResolveStep

SpecResolve == ResolveInit /\ [][ResolveNext]_vars

-----------------------------------------------------------------------------
(* AURHelper: run_command and the helpers of the package operations *)

TimedOutMsg == <<"C", "o", "m", "m", "a", "n", "d", " ",
                 "t", "i", "m", "e", "d", " ", "o", "u", "t">>

\* str(e) of a fault other than the timeout
FaultMsg == <<"f", "a", "u", "l", "t">>

\* how a subprocess may end: with a return code, by subprocess.TimeoutExpired
\* after 300 seconds, by another exception, whose str(e) is text, or by the
\* KeyboardInterrupt that subprocess.run raises when the user presses Ctrl-C
Exit(c) == [kind |-> "exit", code |-> c, text |-> <<>>]
TimedOut == [kind |-> "timeout", code |-> 0, text |-> <<>>]
Fault(m) == [kind |-> "fault", code |-> 0, text |-> m]
Interrupt == [kind |-> "interrupt", code |-> 0, text |-> <<>>]

\* the ends after which run_command returns, as the operations of the session
\* are tried with them (the interrupt is CommandInterrupted)
CmdOutcomes == {Exit(0), Exit(1), TimedOut, Fault(FaultMsg)}

\* a bug to tell apart: the timeout has no handler of its own and is reported
\* like any other fault, with str(e)
RunCommandOneHandler(outcome, out, capture) ==
    CASE outcome.kind \in {"timeout", "fault"} ->
             [success |-> FALSE, output |-> outcome.text]
      [] OTHER -> [success |-> (outcome.code = 0),
                   output  |-> IF capture THEN Strip(out) ELSE <<>>]

\* run_command(cmd, capture_output): (success, output), given how the
\* subprocess ended and what it printed; an interrupted subprocess leaves
\* run_command without a return value (RunTry)
RunCommand(outcome, out, capture) ==
    CASE outcome.kind = "timeout" -> [success |-> FALSE, output |-> TimedOutMsg]
      [] outcome.kind = "fault"   -> [success |-> FALSE, output |-> outcome.text]
      [] outcome.kind = "exit" ->
                  [success |-> (outcome.code = 0),
                   output  |-> IF capture THEN Strip(out) ELSE <<>>]

\* [a-zA-Z0-9]
IsAlnum(c) ==
    \/ \E k \in 1..Len(Letters) : Letters[k] = c
    \/ \E k \in 1..Len(UpperLetters) : UpperLetters[k] = c
    \/ \E k \in 1..Len(Digits) : Digits[k] = c

NameChar(c) == IsAlnum(c) \/ c \in {"@", ".", "_", "+", "-"}

MaxNameLen == 255

\* validate_package_name: re.match(^[a-zA-Z0-9][a-zA-Z0-9@._+-]*$) and
\* len(package) <= 255; "$" also matches just before a final newline
ValidatePackageName(s) ==
    LET body == IF s # <<>> /\ s[Len(s)] = "\n"
                THEN SubSeq(s, 1, Len(s) - 1) ELSE s
    IN  /\ body # <<>>
        /\ IsAlnum(body[1])
        /\ \A k \in 2..Len(body) : NameChar(body[k])
        /\ Len(s) <= MaxNameLen

\* s.split(c): the pieces between the occurrences of c
RECURSIVE SplitOn(_, _)
SplitOn(s, c) ==
    LET k == FirstOf(s, c) IN
    IF k = 0 THEN <<s>>
    ELSE <<SubSeq(s, 1, k - 1)>> \o SplitOn(SubSeq(s, k + 1, Len(s)), c)

\* x in seq
InList(x, seq) == \E k \in 1..Len(seq) : seq[k] = x

\* a bug to tell apart: the output is taken for the list also when the query
\* failed
InstalledPackagesUnchecked(r) ==
    IF r.output # <<>> THEN SplitOn(r.output, "\n") ELSE <<>>

\* get_installed_packages, given what run_command("pacman -Qq") returned
InstalledPackages(r) ==
    IF r.success
    THEN (IF r.output # <<>> THEN SplitOn(r.output, "\n") ELSE <<>>)
    ELSE <<>>

\* the patterns check_package_exists searches for, one command each
NumPatterns == 3

\* check_package_exists, lines 268-273: the search for one pattern found it
FoundIn(name, r) ==
    /\ r.success
    /\ r.output # <<>>
    /\ \E k \in 1..Len(SplitLines(r.output)) :
          LET line == SplitLines(r.output)[k] IN
          \/ HasSubstring(line, <<"/">> \o name \o <<" ">>)
          \/ EndsWith(Strip(line), <<"/">> \o name)

\* supported_managers, in menu order, and its needs_sudo
Managers == <<"pacman", "yay", "paru">>
NeedsSudo(m) == m = "pacman"

\* input(...).lower().strip() in ['y', 'yes']
Yes(ans) == ans \in {"y", "yes"}

\* str.lower(), for the letters of the model's alphabet
Lower(s) ==
    [k \in 1..Len(s) |->
        IF InList(s[k], UpperLetters) THEN Letters[FirstOf(UpperLetters, s[k])]
        ELSE s[k]]

\* the most digits int() converts (sys.get_int_max_str_digits()); a longer
\* numeral raises ValueError
MaxStrDigits == 4300

\* int(s) succeeds (lines 356, 624, 693): after the blanks and one sign come
\* digits, at most MaxStrDigits of them, with single underscores allowed
\* between two digits
IsInt(s) ==
    LET t == Strip(s)
        u == IF t # <<>> /\ t[1] \in {"+", "-"} THEN Tail(t) ELSE t
    IN
    /\ u # <<>>
    /\ \/ Len(u) <= MaxStrDigits
       \/ Len(SelectSeq(u, LAMBDA c : c # "_")) <= MaxStrDigits
    /\ \A k \in 1..Len(u) :
          \/ InList(u[k], Digits)
          \/ /\ u[k] = "_"
             /\ k > 1 /\ k < Len(u)
             /\ InList(u[k - 1], Digits) /\ InList(u[k + 1], Digits)

\* the value of the digits of u, underscores skipped
RECURSIVE Magnitude(_)
Magnitude(u) ==
    IF u = <<>> THEN 0
    ELSE IF u[Len(u)] = "_" THEN Magnitude(SubSeq(u, 1, Len(u) - 1))
    ELSE 10 * Magnitude(SubSeq(u, 1, Len(u) - 1)) + FirstOf(Digits, u[Len(u)]) - 1

\* int(s), for a line with IsInt(s)
ParseInt(s) ==
    LET t == Strip(s) IN
    IF t[1] = "-" THEN 0 - Magnitude(Tail(t))
    ELSE IF t[1] = "+" THEN Magnitude(Tail(t))
    ELSE Magnitude(t)

\* an event of the history: a command run (ok: it succeeded), a check made,
\* an input read or a line logged; arg is the package name in a command (for
\* an update command: the commands still to run; for an orphan query: what it
\* printed; for the installed-package query: the list obtained)
Ev(e, ok, arg) == [ev |-> e, ok |-> ok, arg |-> arg]

-----------------------------------------------------------------------------
(* The environment of the session *)

\* what ends the session from below run(): the Ctrl-C and the end of input
\* that input() raises instead of returning a line, and the recursion limit.
\* As a value of selection they stand for a read that returned no line.
KeyboardInterrupt == <<"KeyboardInterrupt">>
EOFError == <<"EOFError">>
RecursionError == <<"RecursionError">>

\* what the user may type at a package-name or query prompt
RawNames == {<<>>, <<" ">>, <<"a">>, <<" ", "a", "b">>, <<"-", "b">>}

\* what a search command may print
HdrBad == <<"r", "/", "-", "b", " ", "1">>
SearchStdouts == {<<>>, HdrA, HdrBad}

\* what pacman -Qq may print
ListStdouts == {<<>>, <<"a", "\n", "a", "b", "\n">>}

Answers == {"y", "yes", "n", ""}

\* the lines typed at the menus
MenuInputs ==
    {<<"0">>, <<"1">>, <<"2">>, <<"3">>, <<"4">>, <<"5">>, <<"x">>, <<>>,
     <<" ", "3">>, <<"+", "1">>, <<"0", "2">>, <<"1", "_", "0">>,
     [k \in 1..(MaxStrDigits + 1) |-> "1"]}
ConfigInputs ==
    {<<"0">>, <<"1">>, <<"2">>, <<"3">>, <<"4">>, <<"5">>, <<"6">>, <<"7">>, <<"x">>}
ActionInputs ==
    {<<"0">>, <<>>, <<"1">>, <<"2">>, <<"3">>, <<"4">>, <<"5">>, <<"6">>, <<"7">>,
     <<"9">>, <<"x">>, <<"+", "1">>}
UpdateInputs ==
    {<<"0">>, <<>>, <<"1">>, <<"2">>, <<"3">>, <<"4">>, <<"5">>, <<"x">>, <<"+", "1">>}

\* what pacman -Qtdq may print
OrphanStdouts == {<<>>, <<"a", "\n">>}
ChoiceInputs ==
    {<<"0">>, <<"c", "a", "n", "c", "e", "l">>, <<"C", "a", "n", "c", "e", "l">>,
     <<"1">>, <<"2">>, <<"9">>, <<"x">>, <<"+", "2">>}

-----------------------------------------------------------------------------
(* AURHelper.run: the menus *)

\* The nested calls of show_package_manager_menu (lines 622, 630, 635, 639)
\* that CPython's recursion limit (sys.getrecursionlimit() = 1000) leaves room
\* for when aur-helper.py is run as a script: the call number MenuDepthLimit
\* raises RecursionError while it displays the menu (is_installed, line 607).
MenuDepthLimit == 992

\* From this depth on install_helper raises RecursionError once it has git
\* (tempfile.TemporaryDirectory, line 234), and from HelperDepthCeil on in any
\* case (the first run_command, lines 227-229, raises before its try).
HelperDepthFloor == 981
HelperDepthCeil == 990

\* The session after construction, at its first manager menu; or at that menu
\* after MenuDepthLimit - MaxDeep entries that were no numbers.
Init ==
    /\ pc = "manager_menu"
    /\ manager = "none"
    /\ config \in [default_manager : {DefaultManager},
                   auto_confirm : BOOLEAN,
                   backup_before_operations : BOOLEAN,
                   max_search_results : {1, DefaultMaxResults},
                   search_cutoff : {DefaultCutoff}]
    /\ op = "none" /\ mode = "none" /\ typed = <<>> /\ package = <<>> /\ pat = 1
    /\ choices = <<>> /\ backup_file = FALSE /\ commands = <<>> /\ trace = <<>>
    /\ result = "none"
    /\ \/ depth = 0 /\ msg = "none" /\ selection = <<>>
       \/ /\ depth = MenuDepthLimit - MaxDeep
          /\ msg = "invalid_input"
          /\ selection = <<"x">>
    /\ stdout = <<>> /\ ppc = "idle" /\ lines = <<>> /\ idx = 1
    /\ packages = <<>> /\ origin = <<>>
    /\ query = <<>> /\ candidates = <<>> /\ max_results = 1
    /\ cutoff = <<0, 1>> /\ rpc = "idle" /\ similar = <<>>
    /\ RunIdle

opVars == <<op, mode, typed, package, pat, choices, backup_file, commands,
            trace, result>>

\* line 815: the log entry of the handler of Exception
LogUnexpected(exc) ==
    IF exc = KeyboardInterrupt THEN <<>> ELSE <<Ev("log_unexpected", TRUE, <<>>)>>

\* return self.show_package_manager_menu(), lines 622, 630, 635 and 639: the
\* menu is shown again by a nested call, after note was printed. The call
\* number MenuDepthLimit raises RecursionError, which ends the session in the
\* handler of lines 813-815. Re-displays are followed up to MaxRedisplays from
\* the start and within MaxDeep of the limit.
Redisplay(note) ==
    /\ depth < MaxRedisplays \/ depth >= MenuDepthLimit - MaxDeep
    /\ IF depth + 1 < MenuDepthLimit
       THEN /\ pc' = "manager_menu"
            /\ depth' = depth + 1
            /\ msg' = note
            /\ UNCHANGED trace
       ELSE /\ pc' = "exited"
            /\ depth' = 0
            /\ msg' = "unexpected_error"
            /\ trace' = trace \o LogUnexpected(RecursionError)

\* lines 618-619, 740-742: "0" leaves the manager menu and ends the session
ManagerExit ==
    /\ pc = "manager_menu"
    /\ \E raw \in MenuInputs :
         /\ Strip(raw) = <<"0">>
         /\ selection' = Strip(raw)
    /\ pc' = "exited"
    /\ msg' = "goodbye"
    /\ depth' = 0
    /\ UNCHANGED <<manager, config, opVars, parseVars, resolveVars, runVars>>

\* lines 620-622: the entry after the managers opens the configuration menu;
\* when show_config_menu returns, the manager menu is shown again by a nested
\* call (Redisplay in ConfigMenu and ConfigInterrupt)
ManagerConfig ==
    /\ pc = "manager_menu"
    /\ \E raw \in MenuInputs :
         /\ Strip(raw) = <<"4">>
         /\ selection' = Strip(raw)
    /\ pc' = "config_menu"
    /\ UNCHANGED <<manager, config, msg, depth, opVars, parseVars, resolveVars, runVars>>

\* lines 624-632, 744: a manager is selected by its number; a helper that
\* is_installed does not find is installed first (install_helper); the menu is
\* shown again by a nested call when that is declined or fails. An exception
\* that install_helper raises (os.getcwd() of a removed directory, line 236;
\* os.chdir into a clone that left no directory, line 246) ends the session
\* in the handler of lines 813-815. From HelperDepthFloor on the installation
\* cannot succeed: it raises RecursionError unless git is missing and cannot
\* be installed; from HelperDepthCeil on it raises in any case.
ManagerSelect ==
    /\ pc = "manager_menu"
    /\ \E raw \in MenuInputs :
         LET choice == Strip(raw) IN
         /\ selection' = choice
         /\ choice \notin {<<"0">>, <<"4">>}
         /\ IsInt(choice)
         /\ ParseInt(choice) \in 1..Len(Managers)
         /\ \E is_installed \in BOOLEAN, ans \in Answers,
               helper \in {"installed", "failed", "raised"} :
            LET selected == Managers[ParseInt(choice)] IN
            IF is_installed \/ selected = "pacman"
            THEN /\ pc' = "action_menu"
                 /\ manager' = selected
                 /\ msg' = "using_manager"
                 /\ depth' = 0
                 /\ UNCHANGED trace
            ELSE IF ~(config.auto_confirm \/ Yes(ans))
            THEN /\ Redisplay("helper_not_installed")
                 /\ UNCHANGED manager
            ELSE IF \/ helper = "raised"
                    \/ depth >= HelperDepthCeil
                    \/ depth >= HelperDepthFloor /\ helper = "installed"
            THEN /\ pc' = "exited"
                 /\ depth' = 0
                 /\ msg' = "unexpected_error"
                 /\ trace' = trace \o LogUnexpected(IF helper = "raised"
                                                     THEN <<"FileNotFoundError">>
                                                     ELSE RecursionError)
                 /\ UNCHANGED manager
            ELSE IF helper = "installed"
            THEN /\ pc' = "action_menu"
                 /\ manager' = selected
                 /\ msg' = "using_manager"
                 /\ depth' = 0
                 /\ UNCHANGED trace
            ELSE /\ Redisplay("helper_not_installed")
                 /\ UNCHANGED manager
    /\ UNCHANGED <<config, op, mode, typed, package, pat, choices, backup_file,
                   commands, result, parseVars, resolveVars, runVars>>

\* lines 633-639: a number out of range or a non-number is reported and the
\* menu is shown again by a nested call
ManagerInvalid ==
    /\ pc = "manager_menu"
    /\ \E raw \in MenuInputs :
         LET choice == Strip(raw) IN
         /\ selection' = choice
         /\ choice \notin {<<"0">>, <<"4">>}
         /\ ~(IsInt(choice) /\ ParseInt(choice) \in 1..Len(Managers))
         /\ Redisplay(IF IsInt(choice) THEN "invalid_selection" ELSE "invalid_input")
    /\ UNCHANGED <<manager, config, op, mode, typed, package, pat, choices,
                   backup_file, commands, result, parseVars, resolveVars, runVars>>

\* lines 693-694: the number entered is within 1-50
ResultsInRange(entered) ==
    IsInt(entered) /\ ParseInt(entered) >= 1 /\ ParseInt(entered) <= MaxResultsLimit

\* show_config_menu, lines 661-704: one pass of its loop; options 1 and 5 read
\* a second line; a key that is set is reported even when its value is the
\* one it had; a selection that is no option is not reported; "0" returns to
\* line 622, where the manager menu is shown again by a nested call
ConfigMenu ==
    /\ pc = "config_menu"
    /\ \E raw \in ConfigInputs, new_manager \in {"yay", "x"},
          entered \in {<<"1">>, <<"1", "0">>, <<"0">>, <<"x">>, <<"+", "1">>,
                       <<"1", "_", "0">>, <<" ", "1", " ">>} :
         LET choice == Strip(raw) IN
         /\ selection' = choice
         /\ config' =
              CASE choice = <<"1">> /\ InList(new_manager, Managers) ->
                     [config EXCEPT !.default_manager = new_manager]
                [] choice = <<"2">> ->
                     [config EXCEPT !.auto_confirm = ~config.auto_confirm]
                [] choice = <<"4">> ->
                     [config EXCEPT !.backup_before_operations =
                                        ~config.backup_before_operations]
                [] choice = <<"5">> /\ ResultsInRange(entered) ->
                     [config EXCEPT !.max_search_results = ParseInt(entered)]
                [] OTHER -> config
         /\ IF choice = <<"0">>
            THEN Redisplay(msg)
            ELSE /\ UNCHANGED <<pc, depth, trace>>
                 /\ msg' =
                      CASE choice = <<"1">> /\ InList(new_manager, Managers) ->
                             "config_changed"
                        [] choice \in {<<"2">>, <<"3">>, <<"4">>, <<"6">>} ->
                             "config_changed"
                        [] choice = <<"5">> /\ ResultsInRange(entered) ->
                             "config_changed"
                        [] choice = <<"5">> /\ ~IsInt(entered) -> "invalid_number"
                        [] OTHER -> msg
    /\ UNCHANGED <<manager, op, mode, typed, package, pat, choices, backup_file,
                   commands, result, parseVars, resolveVars, runVars>>

\* a selection that starts no operation: the history of the last operation
\* ends, and there is none in progress
NoOperation ==
    /\ op' = "none" /\ mode' = "none" /\ typed' = <<>> /\ package' = <<>>
    /\ pat' = 1 /\ choices' = <<>> /\ backup_file' = FALSE /\ trace' = <<>>
    /\ result' = "none"

\* lines 749-750: "0" (or no input) goes back to the manager menu; the
\* history of the last operation ends here
ActionBack ==
    /\ pc = "action_menu"
    /\ \E raw \in ActionInputs :
         /\ Strip(raw) \in {<<"0">>, <<>>}
         /\ selection' = Strip(raw)
         /\ pc' = "manager_menu"
    /\ op' = "none" /\ mode' = "none" /\ typed' = <<>> /\ package' = <<>>
    /\ pat' = 1 /\ choices' = <<>> /\ backup_file' = FALSE /\ trace' = <<>>
    /\ commands' = <<>> /\ result' = "none" /\ msg' = "none"
    /\ UNCHANGED <<manager, config, depth, parseVars, resolveVars, runVars>>

\* lines 808-809: anything that is no action of the menu
ActionInvalid ==
    /\ pc = "action_menu"
    /\ \E raw \in ActionInputs :
         /\ Strip(raw) \notin {<<"0">>, <<>>, <<"1">>, <<"2">>, <<"3">>, <<"4">>,
                               <<"5">>, <<"6">>, <<"7">>}
         /\ selection' = Strip(raw)
         /\ msg' = "invalid_action"
    /\ NoOperation
    /\ UNCHANGED <<pc, manager, config, commands, depth, parseVars, resolveVars,
                   runVars>>

-----------------------------------------------------------------------------
(* AURHelper.run: the operations of the action menu *)

frame == <<manager, config, commands, depth, parseVars, resolveVars, runVars>>

\* the operation is over: back to the action menu with what it returned
Finish(tr, res, note) ==
    /\ pc' = "action_menu"
    /\ trace' = tr
    /\ result' = res
    /\ msg' = note

\* the operation goes on to its next command or prompt after printing note; it
\* has returned nothing
GotoWith(next, tr, note) ==
    /\ pc' = next
    /\ trace' = tr
    /\ result' = "none"
    /\ msg' = note

\* the operation goes on to its next command or prompt; it has returned nothing
Goto(next, tr) ==
    /\ pc' = next
    /\ trace' = tr
    /\ result' = "none"
    /\ UNCHANGED msg

\* backup_system_state, line 193: no command is run when backups are off
AfterCheck == IF config.backup_before_operations THEN "backup" ELSE "exec"

\* a bug to tell apart: install_package does not validate the name
EnterInstallUnchecked(name, tr, note) == GotoWith("install_listq", tr, note)

\* install_package, lines 372-374: the name is validated first; an invalid name
\* is reported and False returned, a valid one leads to the installed-list
\* query; note is the last thing the caller printed
EnterInstall(name, tr, note) ==
    IF ValidatePackageName(name)
    THEN GotoWith("install_listq", tr \o <<Ev("validate", TRUE, name)>>, note)
    ELSE Finish(tr \o <<Ev("validate", FALSE, name)>>, "false", "invalid_name")

\* remove_package, lines 414-416: the same for a removal
EnterRemove(name, tr, note) ==
    IF ValidatePackageName(name)
    THEN GotoWith("remove_listq", tr \o <<Ev("validate", TRUE, name)>>, note)
    ELSE Finish(tr \o <<Ev("validate", FALSE, name)>>, "false", "invalid_name")

\* lines 752-755: action 1 reads a name; a non-empty name goes to
\* check_package_exists
ActionInstall ==
    /\ pc = "action_menu"
    /\ \E raw \in RawNames :
         LET name == Strip(raw) IN
         IF name = <<>>
         THEN /\ NoOperation
              /\ msg' = "prompt"
              /\ UNCHANGED pc
         ELSE /\ op' = "install"
              /\ mode' = "none"
              /\ typed' = name
              /\ package' = name
              /\ pat' = 1
              /\ choices' = <<>>
              /\ backup_file' = FALSE
              /\ GotoWith("check_exists", <<Ev("input", TRUE, name)>>, "prompt")
    /\ UNCHANGED frame
    /\ selection' = <<"1">>

\* lines 800-803: action 6 reads a query and runs search_similar_interactive
ActionSearch ==
    /\ pc = "action_menu"
    /\ \E raw \in RawNames :
         LET name == Strip(raw) IN
         IF name = <<>>
         THEN /\ NoOperation
              /\ msg' = "prompt"
              /\ UNCHANGED pc
         ELSE /\ op' = "search"
              /\ mode' = "none"
              /\ typed' = name
              /\ package' = name
              /\ pat' = 1
              /\ choices' = <<>>
              /\ backup_file' = FALSE
              /\ GotoWith("similar_search", <<Ev("input", TRUE, name)>>, "prompt")
    /\ UNCHANGED frame
    /\ selection' = <<"6">>

\* lines 805-806: action 7, show_system_info, queries the installed packages
ActionInfo ==
    /\ pc = "action_menu"
    /\ \E outcome \in CmdOutcomes, out \in ListStdouts :
         LET r == RunCommand(outcome, out, TRUE) IN
         /\ op' = "info"
         /\ mode' = "none"
         /\ typed' = <<>>
         /\ package' = <<>>
         /\ pat' = 1
         /\ choices' = <<>>
         /\ backup_file' = FALSE
         /\ Finish(<<Ev("listq", r.success, InstalledPackages(r))>>,
                   "none", "system_info")
    /\ UNCHANGED frame
    /\ selection' = <<"7">>

\* check_package_exists, lines 266-274: the search for the next pattern; found:
\* on to install_package (line 759); none of the patterns found it: on to
\* search_similar_interactive (line 756)
CheckExists ==
    /\ pc = "check_exists"
    /\ \E outcome \in CmdOutcomes, out \in SearchStdouts :
         LET r == RunCommand(outcome, out, TRUE)
             tr == trace \o <<Ev("search", r.success, package)>>
         IN  IF FoundIn(package, r)
             THEN /\ EnterInstall(package, tr \o <<Ev("found", TRUE, package)>>, msg)
                  /\ pat' = 1
             ELSE IF pat < NumPatterns
             THEN /\ Goto("check_exists", tr)
                  /\ pat' = pat + 1
             ELSE /\ Goto("similar_search", tr)
                  /\ pat' = 1
    /\ UNCHANGED <<op, mode, typed, package, choices, backup_file>>
    /\ UNCHANGED frame
    /\ selection' = selection

\* search_similar_interactive, lines 320-348: the search, the parse, the close
\* matches; None when nothing is found, otherwise the list is offered
SimilarSearch ==
    /\ pc = "similar_search"
    /\ \E outcome \in CmdOutcomes, out \in SearchStdouts :
         LET r == RunCommand(outcome, out, TRUE)
             tr == trace \o <<Ev("fuzzy_search", r.success, package)>>
             found == SearchPackages(r.success, r.output)
             names == [k \in 1..Len(found) |-> found[k].name]
             sim == Resolve(package, names, config.max_search_results,
                            config.search_cutoff)
         IN  IF found = <<>>
             THEN /\ Finish(tr, "none", "no_packages")
                  /\ choices' = <<>>
             ELSE IF sim = <<>>
             THEN /\ Finish(tr, "none", "no_similar")
                  /\ choices' = <<>>
             ELSE /\ Goto("similar_choice", tr)
                  /\ choices' = sim
    /\ UNCHANGED <<op, mode, typed, package, pat, backup_file>>
    /\ UNCHANGED frame
    /\ selection' = selection

\* search_similar_interactive, lines 350-369, and lines 757-759 of run: the
\* user picks a number; "0" or "cancel" in any case, a number out of range and
\* a non-number all return None; a picked name is printed ("Selected: ...")
\* and goes to install_package (action 1 only)
SimilarChoice ==
    /\ pc = "similar_choice"
    /\ \E raw \in ChoiceInputs :
         LET choice == Strip(raw) IN
         /\ selection' = choice
         /\ IF choice = <<"0">> \/ Lower(choice) = <<"c", "a", "n", "c", "e", "l">>
            THEN /\ Finish(trace \o <<Ev("cancel", TRUE, <<>>)>>, "none", "search_cancelled")
                 /\ UNCHANGED package
            ELSE IF ~IsInt(choice)
            THEN /\ Finish(trace \o <<Ev("cancel", FALSE, <<>>)>>, "none", "invalid_input")
                 /\ UNCHANGED package
            ELSE IF ParseInt(choice) >= 1 /\ ParseInt(choice) <= Len(choices)
            THEN LET selected == choices[ParseInt(choice)]
                     tr == trace \o <<Ev("select", TRUE, selected)>>
                 IN  /\ package' = selected
                     /\ IF op = "install"
                        THEN EnterInstall(selected, tr, "selected")
                        ELSE Finish(tr, "none", "selected")
            ELSE /\ Finish(trace \o <<Ev("cancel", FALSE, <<>>)>>, "none", "invalid_selection")
                 /\ UNCHANGED package
    /\ UNCHANGED <<op, mode, typed, pat, choices, backup_file>>
    /\ UNCHANGED frame

\* install_package, lines 377-383: the installed-package query; a package that
\* is installed already is reported, and reinstalled only on confirmation
\* unless auto-confirm is on
InstallListQ ==
    /\ pc = "install_listq"
    /\ \E outcome \in CmdOutcomes, out \in ListStdouts :
         LET r == RunCommand(outcome, out, TRUE)
             tr == trace \o <<Ev("listq", r.success, InstalledPackages(r))>>
         IN  IF InList(package, InstalledPackages(r))
             THEN IF ~config.auto_confirm
                  THEN /\ pc' = "reinstall_prompt"
                       /\ trace' = tr
                       /\ msg' = "already_installed"
                       /\ UNCHANGED result
                  ELSE GotoWith(AfterCheck, tr, "already_installed")
             ELSE Goto(AfterCheck, tr)
    /\ UNCHANGED <<op, mode, typed, package, pat, choices, backup_file>>
    /\ UNCHANGED frame
    /\ selection' = selection

\* install_package, lines 381-383: "Reinstall? (y/n)"
ReinstallPrompt ==
    /\ pc = "reinstall_prompt"
    /\ \E ans \in Answers :
         IF Yes(ans)
         THEN Goto(AfterCheck, trace \o <<Ev("confirm", TRUE, <<>>)>>)
         ELSE Finish(trace \o <<Ev("confirm", FALSE, <<>>)>>, "false", msg)
    /\ UNCHANGED <<op, mode, typed, package, pat, choices, backup_file>>
    /\ UNCHANGED frame
    /\ selection' = selection

\* backup_system_state, lines 196-212, with backups on: the directory is made,
\* pacman -Qq is run and its output written; a failed command or an exception
\* (caught and logged) leaves no backup file
BackupSystemState ==
    /\ pc = "backup"
    /\ \E dir_ok \in BOOLEAN, outcome \in CmdOutcomes, out \in ListStdouts,
          write_ok \in BOOLEAN :
         LET r == RunCommand(outcome, out, TRUE) IN
         IF ~dir_ok
         THEN /\ Goto("exec", trace \o <<Ev("backup_failed", FALSE, <<>>)>>)
              /\ backup_file' = FALSE
         ELSE IF r.success /\ write_ok
         THEN /\ Goto("exec", trace \o <<Ev("backupq", TRUE, <<>>),
                                           Ev("backup_written", TRUE, <<>>)>>)
              /\ backup_file' = TRUE
         ELSE /\ Goto("exec", trace \o <<Ev("backupq", r.success, <<>>)>>
                              \o (IF r.success
                                  THEN <<Ev("backup_failed", FALSE, <<>>)>>
                                  ELSE <<>>))
              /\ backup_file' = FALSE
    /\ UNCHANGED <<op, mode, typed, package, pat, choices>>
    /\ UNCHANGED frame
    /\ selection' = selection

\* a bug to tell apart: the recovery hint is never printed
HintNever == <<>>

\* the recovery hint printed after a failure when a backup file was written
Hint == IF backup_file THEN <<Ev("backup_hint", TRUE, <<>>)>> ELSE <<>>

\* install_package, lines 389-410: the install command, then the outcome is
\* logged and returned
InstallExec ==
    /\ pc = "exec"
    /\ op = "install"
    /\ \E outcome \in CmdOutcomes :
         LET r == RunCommand(outcome, <<>>, FALSE) IN
         IF r.success
         THEN Finish(trace \o <<Ev("install", TRUE, package),
                                Ev("log_info", TRUE, package)>>,
                     "true", "installed")
         ELSE Finish(trace \o <<Ev("install", FALSE, package),
                                Ev("log_error", TRUE, package)>> \o Hint,
                     "false", "install_failed")
    /\ UNCHANGED <<op, mode, typed, package, pat, choices, backup_file>>
    /\ UNCHANGED frame
    /\ selection' = selection

\* lines 761-776: actions 2, 3 and 4 read a name; purge prints its warning and
\* asks "Continue?" first unless auto-confirm is on
ActionRemove ==
    /\ pc = "action_menu"
    /\ \E raw \in RawNames, m \in {"simple", "full", "purge"} :
         LET name == Strip(raw) IN
         /\ selection' = (CASE m = "simple" -> <<"2">> [] m = "full" -> <<"3">>
                            [] OTHER -> <<"4">>)
         /\ IF name = <<>>
            THEN /\ NoOperation
                 /\ msg' = "prompt"
                 /\ UNCHANGED pc
            ELSE /\ op' = "remove"
                 /\ mode' = m
                 /\ typed' = name
                 /\ package' = name
                 /\ pat' = 1
                 /\ choices' = <<>>
                 /\ backup_file' = FALSE
                 /\ IF m = "purge" /\ ~config.auto_confirm
                    THEN /\ pc' = "purge_confirm"
                         /\ trace' = <<Ev("input", TRUE, name)>>
                         /\ result' = "none"
                         /\ msg' = "purge_warning"
                    ELSE /\ EnterRemove(name, <<Ev("input", TRUE, name)>>,
                                        IF m = "purge" THEN "purge_warning"
                                        ELSE "prompt")
    /\ UNCHANGED frame

\* line 775: "Continue? (y/n)" before a purge; nothing is printed between the
\* answer and remove_package
PurgeConfirm ==
    /\ pc = "purge_confirm"
    /\ \E ans \in Answers :
         IF Yes(ans)
         THEN EnterRemove(package, trace \o <<Ev("confirm", TRUE, <<>>)>>, msg)
         ELSE Finish(trace \o <<Ev("confirm", FALSE, <<>>)>>, "none", msg)
    /\ UNCHANGED <<op, mode, typed, package, pat, choices, backup_file>>
    /\ UNCHANGED frame
    /\ selection' = selection

\* remove_package, lines 418-421: a package that is not in the installed list
\* is not removed
RemoveListQ ==
    /\ pc = "remove_listq"
    /\ \E outcome \in CmdOutcomes, out \in ListStdouts :
         LET r == RunCommand(outcome, out, TRUE)
             tr == trace \o <<Ev("listq", r.success, InstalledPackages(r))>>
         IN  IF ~InList(package, InstalledPackages(r))
             THEN Finish(tr, "false", "not_installed")
             ELSE Goto(AfterCheck, tr)
    /\ UNCHANGED <<op, mode, typed, package, pat, choices, backup_file>>
    /\ UNCHANGED frame
    /\ selection' = selection

\* a bug to tell apart: a purge reports the outcome of its cache clean
PurgeReturnsClean(clean_success) == IF clean_success THEN "true" ELSE "false"

\* remove_package, lines 449-454: what a purge returns after the cache clean
PurgeReturns(clean_success) == "true"

\* remove_package, lines 433-463: the removal command (the same one in every
\* mode); on success the outcome is logged and, in purge mode, the cache clean
\* follows; on failure False is returned
RemoveExec ==
    /\ pc = "exec"
    /\ op = "remove"
    /\ IF mode \in {"simple", "full", "purge"}
       THEN \E outcome \in CmdOutcomes :
              LET r == RunCommand(outcome, <<>>, FALSE)
                  ok == <<Ev("remove", TRUE, package), Ev("log_info", TRUE, package)>>
              IN  IF r.success
                  THEN IF mode = "purge"
                       THEN /\ pc' = "remove_clean"
                            /\ trace' = trace \o ok
                            /\ msg' = "removed"
                            /\ UNCHANGED result
                       ELSE Finish(trace \o ok, "true", "removed")
                  ELSE Finish(trace \o <<Ev("remove", FALSE, package),
                                         Ev("log_error", TRUE, package)>> \o Hint,
                              "false", "remove_failed")
       ELSE Finish(trace, "false", "unknown_mode")
    /\ UNCHANGED <<op, mode, typed, package, pat, choices, backup_file>>
    /\ UNCHANGED frame
    /\ selection' = selection

\* remove_package, lines 443-454: the cache clean of a purge; its outcome is
\* printed and True returned
RemoveClean ==
    /\ pc = "remove_clean"
    /\ \E outcome \in CmdOutcomes :
         LET r == RunCommand(outcome, <<>>, FALSE) IN
         Finish(trace \o <<Ev("cache_clean", r.success, <<>>)>>,
                PurgeReturns(r.success),
                IF r.success THEN "cache_cleaned" ELSE "cache_clean_failed")
    /\ UNCHANGED <<op, mode, typed, package, pat, choices, backup_file>>
    /\ UNCHANGED frame
    /\ selection' = selection

-----------------------------------------------------------------------------
(* AURHelper.run: action 5, update_system and remove_orphaned_packages *)

\* lines 788-793
UpdateModes == <<"standard", "full", "refresh", "force">>

\* a command line of update_system: [sudo] <manager> <flags> [--noconfirm]
Cmd(sudo, m, flags) == [sudo |-> sudo, mgr |-> m, flags |-> flags, noconfirm |-> FALSE]

\* lines 478-516: the commands of an update mode, given the manager and what
\* is_installed says of yay and paru
UpdateCommands(m, md, yay, paru) ==
    CASE md = "standard" -> <<Cmd(NeedsSudo(m), m, "-Syu")>>
      [] md = "full" ->
             IF m \in {"yay", "paru"} THEN <<Cmd(FALSE, m, "-Syu")>>
             ELSE IF yay THEN <<Cmd(FALSE, "yay", "-Syu")>>
             ELSE IF paru THEN <<Cmd(FALSE, "paru", "-Syu")>>
             ELSE <<Cmd(TRUE, "pacman", "-Syu")>>
      [] md = "refresh" -> <<Cmd(NeedsSudo(m), m, "-Syyu")>>
      [] md = "force" ->
             IF m \in {"yay", "paru"} THEN <<Cmd(FALSE, m, "-Syyu")>>
             ELSE <<Cmd(TRUE, "pacman", "-Syyu")>>
                  \o (IF yay THEN <<Cmd(FALSE, "yay", "-Syu")>>
                      ELSE IF paru THEN <<Cmd(FALSE, "paru", "-Syu")>>
                      ELSE <<>>)
      [] OTHER -> <<>>

\* lines 518-519
NoConfirm(cmds, auto) ==
    [k \in 1..Len(cmds) |-> [cmds[k] EXCEPT !.noconfirm = auto]]

\* lines 778-786: action 5 shows the update options
ActionUpdate ==
    /\ pc = "action_menu"
    /\ pc' = "update_menu"
    /\ op' = "update"
    /\ mode' = "none"
    /\ typed' = <<>>
    /\ package' = <<>>
    /\ pat' = 1
    /\ choices' = <<>>
    /\ backup_file' = FALSE
    /\ trace' = <<>>
    /\ result' = "none"
    /\ msg' = "update_options"
    /\ UNCHANGED frame
    /\ selection' = <<"5">>

\* lines 786-798 and 467: the update mode is read and looked up among the keys
\* "1" to "4" of update_modes; one of the four modes
\* starts update_system, which begins with backup_system_state; "0" and
\* anything else go back to the action menu
UpdateChoice ==
    /\ pc = "update_menu"
    /\ \E raw \in UpdateInputs :
         LET update_choice == Strip(raw) IN
         /\ selection' = update_choice
         /\ IF \E k \in 1..Len(UpdateModes) : update_choice = <<Digits[k + 1]>>
            THEN /\ mode' = UpdateModes[FirstOf(Digits, update_choice[1]) - 1]
                 /\ Goto(AfterCheck, <<Ev("input", TRUE, <<>>)>>)
            ELSE /\ UNCHANGED mode
                 /\ Finish(trace, "none",
                           IF update_choice = <<"0">> THEN msg
                           ELSE "invalid_update_option")
    /\ UNCHANGED <<op, typed, package, pat, choices, backup_file>>
    /\ UNCHANGED frame

\* update_system, lines 476-519: the list of commands is built; mode full
\* without an AUR helper warns that only the official repositories are
\* updated (line 496)
UpdateBuild ==
    /\ pc = "exec"
    /\ op = "update"
    /\ \E yay \in BOOLEAN, paru \in BOOLEAN :
         LET cmds == UpdateCommands(manager, mode, yay, paru) IN
         IF mode \notin {"standard", "full", "refresh", "force"}
         THEN /\ Finish(trace, "false", "unknown_mode")
              /\ UNCHANGED commands
         ELSE /\ commands' = NoConfirm(cmds, config.auto_confirm)
              /\ GotoWith("update_run", trace,
                          IF /\ mode = "full"
                             /\ manager \notin {"yay", "paru"}
                             /\ ~yay /\ ~paru
                          THEN "no_aur_helper" ELSE msg)
    /\ UNCHANGED <<op, mode, typed, package, pat, choices, backup_file>>
    /\ UNCHANGED <<manager, config, depth, parseVars, resolveVars, runVars>>
    /\ selection' = selection

\* update_system, lines 521-551: the next command of the list is run; a
\* failure ends the loop and the update; after the last command the success is
\* printed and logged, and the orphan probe follows
UpdateRun ==
    /\ pc = "update_run"
    /\ \E outcome \in CmdOutcomes :
         LET r == RunCommand(outcome, <<>>, FALSE)
             tr == trace \o <<Ev("update_cmd", r.success, Tail(commands))>>
         IN  IF commands = <<>>
             THEN /\ GotoWith("orphan_probe",
                               trace \o <<Ev("log_info", TRUE, <<>>)>>, "update_done")
                  /\ UNCHANGED commands
             ELSE IF ~r.success
             THEN /\ Finish(tr \o <<Ev("log_error", TRUE, <<>>)>> \o Hint,
                            "false", "update_failed")
                  /\ commands' = <<>>
             ELSE IF Len(commands) > 1
             THEN /\ Goto("update_run", tr)
                  /\ commands' = Tail(commands)
             ELSE /\ GotoWith("orphan_probe",
                               tr \o <<Ev("log_info", TRUE, <<>>)>>, "update_done")
                  /\ commands' = <<>>
    /\ UNCHANGED <<op, mode, typed, package, pat, choices, backup_file>>
    /\ UNCHANGED <<manager, config, depth, parseVars, resolveVars, runVars>>
    /\ selection' = selection

\* update_system, lines 538-546: pacman -Qtdq; orphans are reported, and
\* their removal is offered unless auto-confirm is on; True is returned
OrphanProbe ==
    /\ pc = "orphan_probe"
    /\ \E outcome \in CmdOutcomes, out \in OrphanStdouts :
         LET r == RunCommand(outcome, out, TRUE)
             tr == trace \o <<Ev("orphan_probe", r.success, Strip(r.output))>>
         IN  IF r.success /\ Strip(r.output) # <<>>
             THEN IF ~config.auto_confirm
                  THEN /\ pc' = "orphan_offer"
                       /\ trace' = tr
                       /\ msg' = "orphans_found"
                       /\ UNCHANGED result
                  ELSE Finish(tr, "true", "orphans_found")
             ELSE Finish(tr, "true", msg)
    /\ UNCHANGED <<op, mode, typed, package, pat, choices, backup_file>>
    /\ UNCHANGED frame
    /\ selection' = selection

\* update_system, lines 542-546: "Remove orphaned packages? (y/n)"; yes calls
\* remove_orphaned_packages, whose return value is dropped
OrphanOffer ==
    /\ pc = "orphan_offer"
    /\ \E ans \in Answers :
         IF Yes(ans)
         THEN /\ op' = "orphans"
              /\ Goto("orphans_check", trace \o <<Ev("offer", TRUE, <<>>)>>)
         ELSE /\ UNCHANGED op
              /\ Finish(trace \o <<Ev("offer", FALSE, <<>>)>>, "true", msg)
    /\ UNCHANGED <<mode, typed, package, pat, choices, backup_file>>
    /\ UNCHANGED frame
    /\ selection' = selection

\* what remove_orphaned_packages returned to update_system (which drops it)
Returned(ok) == <<Ev("orphans_return", ok, <<>>)>>

\* remove_orphaned_packages, lines 555-579: pacman -Qtdq again; a failed
\* query returns False, no orphans returns True; otherwise the packages are
\* listed and, unless auto-confirm is on, the removal is confirmed
OrphansCheck ==
    /\ pc = "orphans_check"
    /\ \E outcome \in CmdOutcomes, out \in OrphanStdouts :
         LET r == RunCommand(outcome, out, TRUE)
             tr == trace \o <<Ev("orphans_listq", r.success, Strip(r.output))>>
         IN  IF ~r.success
             THEN Finish(tr \o Returned(FALSE), "true", "orphan_check_failed")
             ELSE IF Strip(r.output) = <<>>
             THEN Finish(tr \o Returned(TRUE), "true", "no_orphans")
             ELSE IF ~config.auto_confirm
             THEN /\ pc' = "orphans_confirm"
                  /\ trace' = tr
                  /\ msg' = "orphans_listed"
                  /\ UNCHANGED result
             ELSE GotoWith(AfterCheck, tr, "orphans_listed")
    /\ backup_file' = FALSE
    /\ UNCHANGED <<op, mode, typed, package, pat, choices>>
    /\ UNCHANGED frame
    /\ selection' = selection

\* remove_orphaned_packages, lines 576-581: "Remove these orphaned packages?"
OrphansConfirm ==
    /\ pc = "orphans_confirm"
    /\ \E ans \in Answers :
         IF Yes(ans)
         THEN Goto(AfterCheck, trace \o <<Ev("confirm", TRUE, <<>>)>>)
         ELSE Finish(trace \o <<Ev("confirm", FALSE, <<>>)>> \o Returned(FALSE),
                     "true", "orphans_cancelled")
    /\ UNCHANGED <<op, mode, typed, package, pat, choices, backup_file>>
    /\ UNCHANGED frame
    /\ selection' = selection

\* remove_orphaned_packages, lines 583-598: the removal command; its outcome
\* is logged and returned; update_system then returns True
OrphansExec ==
    /\ pc = "exec"
    /\ op = "orphans"
    /\ \E outcome \in CmdOutcomes :
         LET r == RunCommand(outcome, <<>>, FALSE) IN
         IF r.success
         THEN Finish(trace \o <<Ev("orphans_remove", TRUE, <<>>),
                                Ev("log_info", TRUE, <<>>)>> \o Returned(TRUE),
                     "true", "orphans_removed")
         ELSE Finish(trace \o <<Ev("orphans_remove", FALSE, <<>>),
                                Ev("log_error", TRUE, <<>>)>> \o Hint
                           \o Returned(FALSE),
                     "true", "orphans_remove_failed")
    /\ UNCHANGED <<op, mode, typed, package, pat, choices, backup_file>>
    /\ UNCHANGED frame
    /\ selection' = selection

-----------------------------------------------------------------------------
(* AURHelper.run: input() raises instead of returning a line *)

\* show_action_menu, lines 656-658, and run, lines 749-750: Ctrl-C at the
\* action menu is reported, None is returned and the session goes back to the
\* manager menu
ActionInterrupt ==
    /\ pc = "action_menu"
    /\ pc' = "manager_menu"
    /\ selection' = KeyboardInterrupt
    /\ NoOperation
    /\ commands' = <<>>
    /\ msg' = "operation_cancelled"
    /\ UNCHANGED <<manager, config, depth, parseVars, resolveVars, runVars>>

\* show_config_menu, lines 703-704, and line 622: Ctrl-C at the menu, or at
\* the second prompt of options 1 and 5, leaves the configuration menu; the
\* manager menu is shown again by a nested call
ConfigInterrupt ==
    /\ pc = "config_menu"
    /\ \E at \in {KeyboardInterrupt, <<"1">>, <<"5">>} : selection' = at
    /\ Redisplay(msg)
    /\ UNCHANGED <<manager, config, op, mode, typed, package, pat, choices,
                   backup_file, commands, result, parseVars, resolveVars, runVars>>

\* run, lines 811-815: an exception that input() raises and nothing below
\* run() catches ends the session: KeyboardInterrupt with a goodbye, EOFError
\* (an Exception) with a report and a log entry. It is raised at the prompt
\* the session waits at, at the prompt of install_helper (line 220), at the
\* second prompt of the configuration options 1 and 5, at the action menu
\* (where the history of the last operation ends) or the name prompt of
\* actions 1, 2, 3, 4 and 6, or at "Press Enter" of show_system_info. The
\* first two cases are the menu prompts whose input() is not guarded against
\* exc, and the y/n prompts (none of them is guarded).
InputRaises(exc) ==
    /\ pc' = "exited"
    /\ depth' = 0
    /\ msg' = IF exc = KeyboardInterrupt THEN "interrupted" ELSE "unexpected_error"
    /\ \/ /\ \/ pc \in {"manager_menu", "update_menu", "similar_choice"}
             \/ pc = "config_menu" /\ exc = EOFError
          /\ selection' = exc
          /\ trace' = trace \o LogUnexpected(exc)
          /\ UNCHANGED <<op, mode, typed, package, pat, choices, backup_file, result>>
       \/ /\ pc \in {"reinstall_prompt", "purge_confirm", "orphan_offer",
                     "orphans_confirm"}
          /\ UNCHANGED selection
          /\ trace' = trace \o LogUnexpected(exc)
          /\ UNCHANGED <<op, mode, typed, package, pat, choices, backup_file, result>>
       \/ /\ pc = "manager_menu"
          /\ ~config.auto_confirm
          /\ \E raw \in MenuInputs :
                LET choice == Strip(raw) IN
                /\ choice \notin {<<"0">>, <<"4">>}
                /\ IsInt(choice)
                /\ ParseInt(choice) \in 1..Len(Managers)
                /\ Managers[ParseInt(choice)] # "pacman"
                /\ selection' = choice
          /\ trace' = trace \o LogUnexpected(exc)
          /\ UNCHANGED <<op, mode, typed, package, pat, choices, backup_file, result>>
       \/ /\ pc = "config_menu"
          /\ exc = EOFError
          /\ \E choice \in {<<"1">>, <<"5">>} : selection' = choice
          /\ trace' = trace \o LogUnexpected(exc)
          /\ UNCHANGED <<op, mode, typed, package, pat, choices, backup_file, result>>
       \/ /\ pc = "action_menu"
          /\ \E action \in {<<"1">>, <<"2">>, <<"3">>, <<"4">>, <<"6">>}
                           \cup (IF exc = EOFError THEN {exc} ELSE {}) :
                selection' = action
          /\ op' = "none" /\ mode' = "none" /\ typed' = <<>> /\ package' = <<>>
          /\ pat' = 1 /\ choices' = <<>> /\ backup_file' = FALSE
          /\ result' = "none"
          /\ trace' = LogUnexpected(exc)
       \/ /\ pc = "action_menu"
          /\ selection' = <<"7">>
          /\ \E outcome \in CmdOutcomes, out \in ListStdouts :
                LET r == RunCommand(outcome, out, TRUE) IN
                trace' = <<Ev("listq", r.success, InstalledPackages(r))>>
                         \o LogUnexpected(exc)
          /\ op' = "info" /\ mode' = "none" /\ typed' = <<>> /\ package' = <<>>
          /\ pat' = 1 /\ choices' = <<>> /\ backup_file' = FALSE
          /\ result' = "none"
    /\ UNCHANGED <<manager, config, commands, parseVars, resolveVars, runVars>>

\* run, lines 811-812: Ctrl-C while run_command waits for its subprocess (line
\* 143) raises KeyboardInterrupt, which neither run_command (lines 167-172)
\* nor the operation that called it catches; the session ends with the
\* goodbye of line 812 and what the operation had done stays done. The
\* command is the one an operation in progress waits for, the query of
\* show_system_info (action 7), or a command of install_helper at the manager
\* menu.
CommandInterrupted ==
    /\ pc' = "exited"
    /\ depth' = 0
    /\ msg' = "interrupted"
    /\ \/ /\ \/ pc \in {"check_exists", "similar_search", "install_listq",
                        "remove_listq", "backup", "remove_clean", "orphan_probe",
                        "orphans_check"}
             \/ pc = "exec" /\ op \in {"install", "remove", "orphans"}
             \/ pc = "update_run" /\ commands # <<>>
          /\ UNCHANGED <<selection, opVars>>
       \/ /\ pc = "action_menu"
          /\ selection' = <<"7">>
          /\ op' = "info" /\ mode' = "none" /\ typed' = <<>> /\ package' = <<>>
          /\ pat' = 1 /\ choices' = <<>> /\ backup_file' = FALSE
          /\ trace' = <<>> /\ result' = "none"
          /\ UNCHANGED commands
       \/ /\ pc = "manager_menu"
          /\ depth < HelperDepthCeil
          /\ \E raw \in MenuInputs, ans \in Answers :
                LET choice == Strip(raw) IN
                /\ choice \notin {<<"0">>, <<"4">>}
                /\ IsInt(choice)
                /\ ParseInt(choice) \in 1..Len(Managers)
                /\ Managers[ParseInt(choice)] # "pacman"
                /\ config.auto_confirm \/ Yes(ans)
                /\ selection' = choice
          /\ UNCHANGED opVars
    /\ UNCHANGED <<manager, config, parseVars, resolveVars, runVars>>

\* lines 811-812
Interrupted == InputRaises(KeyboardInterrupt) \/ CommandInterrupted

\* lines 813-815
UnexpectedError == InputRaises(EOFError)

Next ==
    \/ ManagerExit \/ ManagerConfig \/ ManagerSelect \/ ManagerInvalid
    \/ ConfigMenu
    \/ ActionBack \/ ActionInvalid
    \/ ActionInstall \/ ActionSearch \/ ActionInfo \/ ActionRemove
    \/ CheckExists \/ SimilarSearch \/ SimilarChoice
    \/ InstallListQ \/ ReinstallPrompt \/ BackupSystemState \/ InstallExec
    \/ PurgeConfirm \/ RemoveListQ \/ RemoveExec \/ RemoveClean
    \/ ActionUpdate \/ UpdateChoice \/ UpdateBuild \/ UpdateRun
    \/ OrphanProbe \/ OrphanOffer
    \/ OrphansCheck \/ OrphansConfirm \/ OrphansExec
    \/ ActionInterrupt \/ ConfigInterrupt \/ Interrupted \/ UnexpectedError

Spec == Init /\ [][Next]_vars

-----------------------------------------------------------------------------
(* AURHelper.validate_package_name, called on its own *)

\* the characters the names tried are made of
NameAlphabet == {"a", "Z", "0", "-", "@", ".", "_", "+", " ", "\t", "\n", "/"}

\* every string over NameAlphabet of at most MaxShort characters
ShortNames == UNION { [1..m -> NameAlphabet] : m \in 0..MaxShort }

\* a name of n characters
LongName(n) == [k \in 1..n |-> "a"]

\* names around the length limit, also with a newline at the end, and the
\* names of the documentation
SpecialNames ==
    { LongName(n) : n \in (MaxNameLen - 1)..(MaxNameLen + 1) }
    \cup { LongName(n) \o <<"\n">> : n \in (MaxNameLen - 2)..MaxNameLen }
    \cup { Firefox, <<"l", "i", "b", "3", "2", "-", "g", "l", "i", "b", "c">>,
           <<"-", "b", "a", "d">>,
           <<"f", "i", "r", "e", " ", "f", "o", "x">> }

ValidateInit ==
    /\ pc = "validate"
    /\ package \in ShortNames \cup SpecialNames
    /\ result = "none"
    /\ manager = "none" /\ config = <<>>
    /\ op = "none" /\ mode = "none" /\ typed = <<>> /\ pat = 1
    /\ choices = <<>> /\ backup_file = FALSE /\ commands = <<>> /\ trace = <<>> /\ msg = "none"
    /\ selection = <<>> /\ depth = 0
    /\ stdout = <<>> /\ ppc = "idle" /\ lines = <<>> /\ idx = 1
    /\ packages = <<>> /\ origin = <<>>
    /\ query = <<>> /\ candidates = <<>> /\ max_results = 1
    /\ cutoff = <<0, 1>> /\ rpc = "idle" /\ similar = <<>>
    /\ RunIdle

\* lines 181-182: the call returns True or False
ValidateName ==
    /\ pc = "validate"
    /\ result' = IF ValidatePackageName(package) THEN "true" ELSE "false"
    /\ pc' = "validated"
    /\ UNCHANGED <<manager, config, op, mode, typed, package, pat, choices,
                   backup_file, commands, trace, msg, selection, depth,
                   parseVars, resolveVars, runVars>>

ValidateNext == ValidateName

SpecValidate == ValidateInit /\ [][ValidateNext]_vars

-----------------------------------------------------------------------------
(* AURHelper.run_command, called on its own *)

\* the ends of the subprocess tried; the return codes are a signal's negative
\* code, 0, and the codes up to MaxExit
RunEnds ==
    { Exit(c) : c \in (-1)..MaxExit }
    \cup { TimedOut, Interrupt }
    \cup { Fault(m) : m \in {<<>>, FaultMsg} }

\* what the subprocess may have printed
RunStdouts == {<<>>, <<"a">>, <<" ", "a", "\n">>, <<"a", "\n", "b", "\n">>, <<"\n">>}

RunInit ==
    /\ proc \in RunEnds
    /\ proc_stdout \in RunStdouts
    /\ capture_output \in BOOLEAN
    /\ cpc = "start"
    /\ returned = "none"
    /\ log = <<>>
    /\ pc = "idle" /\ manager = "none" /\ config = <<>>
    /\ op = "none" /\ mode = "none" /\ typed = <<>> /\ package = <<>> /\ pat = 1
    /\ choices = <<>> /\ backup_file = FALSE /\ commands = <<>> /\ trace = <<>>
    /\ result = "none" /\ msg = "none" /\ selection = <<>> /\ depth = 0
    /\ stdout = <<>> /\ ppc = "idle" /\ lines = <<>> /\ idx = 1
    /\ packages = <<>> /\ origin = <<>>
    /\ query = <<>> /\ candidates = <<>> /\ max_results = 1
    /\ cutoff = <<0, 1>> /\ rpc = "idle" /\ similar = <<>>

\* line 141: the command is logged before it is run
RunLog ==
    /\ cpc = "start"
    /\ log' = <<"INFO">>
    /\ cpc' = "try"
    /\ UNCHANGED <<proc, proc_stdout, capture_output, returned,
                   parseVars, resolveVars, sessionVars>>

\* the log entries of lines 160-163, 168 and 171
RunErrors(outcome, capture) ==
    CASE outcome.kind = "exit" /\ outcome.code = 0 -> <<>>
      [] outcome.kind = "exit" /\ outcome.code # 0 ->
             <<"ERROR">> \o (IF capture THEN <<"ERROR">> ELSE <<>>)
      [] OTHER -> <<"ERROR">>

\* lines 143-172: the subprocess is run and waited for; its end, an exception
\* of the class Exception included, becomes the returned pair; a
\* KeyboardInterrupt has no handler and leaves run_command raised
RunTry ==
    /\ cpc = "try"
    /\ IF proc.kind = "interrupt"
       THEN /\ cpc' = "raised"
            /\ UNCHANGED <<returned, log>>
       ELSE /\ returned' = RunCommand(proc, proc_stdout, capture_output)
            /\ log' = log \o RunErrors(proc, capture_output)
            /\ cpc' = "returned"
    /\ UNCHANGED <<proc, proc_stdout, capture_output,
                   parseVars, resolveVars, sessionVars>>

RunNext == RunLog \/ RunTry

SpecRun == RunInit /\ [][RunNext]_vars

-----------------------------------------------------------------------------
(* Properties of the install and remove operations *)

\* the events that are run_command calls
CommandEvents ==
    {"search", "fuzzy_search", "listq", "backupq", "install", "remove", "cache_clean",
     "update_cmd", "orphan_probe", "orphans_listq", "orphans_remove"}

\* C1 as stated: an install request whose entered name fails the naming
\* pattern is rejected before any command is run: no run_command call is made
\* for it at any point.
C1_RejectedBeforeAnyCommand ==
    (op = "install" /\ ~ValidatePackageName(typed)) =>
        \A k \in 1..Len(trace) : trace[k].ev \notin CommandEvents

\* the stage of the install state machine an event belongs to: Start (0),
\* NameValidated (1), ExistenceChecked (2), ExactMatch / Disambiguated /
\* Cancelled (3), the installed-state check (4), BackedUp (5), Executed (6),
\* Succeeded / Failed (7)
StageOf(e) ==
    CASE e.ev = "input" -> 0
      [] e.ev = "validate" -> 1
      [] e.ev = "search" -> 2
      [] e.ev \in {"found", "fuzzy_search", "select", "cancel"} -> 3
      [] e.ev \in {"listq", "confirm"} -> 4
      [] e.ev \in {"backupq", "backup_written", "backup_failed"} -> 5
      [] e.ev = "install" -> 6
      [] OTHER -> 7

\* C2 as stated: an install operation goes through its stages in the order
\* Start, NameValidated, ExistenceChecked, ExactMatch / Disambiguated /
\* Cancelled, BackedUp, Executed, Succeeded / Failed: no event of an earlier
\* stage follows one of a later stage, and nothing runs after a cancellation
\* or a failed install command.
C2_StagesInOrder ==
    op = "install" =>
        /\ \A i, j \in 1..Len(trace) :
               i < j => StageOf(trace[i]) <= StageOf(trace[j])
        /\ \A i, j \in 1..Len(trace) :
               (i < j /\ (trace[i].ev = "cancel"
                          \/ (trace[i].ev = "install" /\ ~trace[i].ok)))
               => trace[j].ev \notin CommandEvents

\* the command phases of a removal
IsPhase(e) == e.ev \in {"remove", "orphan_sweep", "cache_clean"}

PhasesRun == [k \in 1..Len(SelectSeq(trace, IsPhase)) |->
                  SelectSeq(trace, IsPhase)[k].ev]

Prescribed(m) ==
    CASE m = "simple" -> <<"remove">>
      [] m = "full"   -> <<"remove", "orphan_sweep">>
      [] m = "purge"  -> <<"remove", "orphan_sweep", "cache_clean">>

\* C3 as stated: a removal of a valid, installed package that has returned
\* success ran exactly the phases its mode prescribes, in order: simple the
\* removal; full the removal, then the orphan sweep; purge the removal, the
\* orphan sweep, then the cache clean.
C3_PhasesOfMode ==
    (op = "remove" /\ pc = "action_menu" /\ result = "true") =>
        PhasesRun = Prescribed(mode)

\* C4: a removal that reached its removal command (the name valid, the package
\* installed) returns success if and only if that command succeeded, whatever
\* the cache clean of a purge did; until it returns there is no result.
C4_SuccessIffRemoval ==
    op = "remove" =>
        /\ pc # "action_menu" => result = "none"
        /\ (pc = "action_menu" /\ \E k \in 1..Len(trace) : trace[k].ev = "remove")
           => (result = "true"
               <=> \E k \in 1..Len(trace) : trace[k].ev = "remove" /\ trace[k].ok)

\* C4's case: a purge whose removal succeeded and whose cache clean failed has
\* returned success
C4_Witness ==
    /\ op = "remove"
    /\ mode = "purge"
    /\ pc = "action_menu"
    /\ result = "true"
    /\ \E k \in 1..Len(trace) : trace[k].ev = "remove" /\ trace[k].ok
    /\ \E k \in 1..Len(trace) : trace[k].ev = "cache_clean" /\ ~trace[k].ok

\* the history has an event of this kind
Did(e) == \E k \in 1..Len(trace) : trace[k].ev = e

\* the history has an event of this kind with this outcome
DidWith(e, ok) == \E k \in 1..Len(trace) : trace[k].ev = e /\ trace[k].ok = ok

\* update_system has come back to the action menu, all its update commands
\* having succeeded
UpdateSucceeded ==
    /\ op \in {"update", "orphans"}
    /\ pc = "action_menu"
    /\ DidWith("update_cmd", TRUE)
    /\ ~DidWith("update_cmd", FALSE)

\* the probe of update_system reported at least one orphaned package
ProbeFoundOrphans ==
    \E k \in 1..Len(trace) :
        trace[k].ev = "orphan_probe" /\ trace[k].ok /\ trace[k].arg # <<>>

\* C14 as stated: after every successful update_system run the system is
\* probed with pacman -Qtdq, and whenever the probe reports an orphan the user
\* is offered the removal, with auto-confirm on as well as off.
C14_OrphansOffered ==
    UpdateSucceeded =>
        /\ Did("orphan_probe")
        /\ ProbeFoundOrphans => Did("offer")

\* the operation that issued a mutating command aborted at event k: no command
\* is run after it, failure is returned, and the path of a backup file written
\* for the operation is shown
AbortedAt(k) ==
    /\ \A j \in (k + 1)..Len(trace) : trace[j].ev \notin CommandEvents
    /\ pc = "action_menu"
    /\ IF trace[k].ev = "orphans_remove"
       THEN DidWith("orphans_return", FALSE)
       ELSE result = "false"
    /\ backup_file => \E j \in (k + 1)..Len(trace) : trace[j].ev = "backup_hint"

\* C15 as stated: when a mutating command of install_package, remove_package,
\* update_system or remove_orphaned_packages fails, the operation aborts at
\* that step: no later command of the operation is run, the operation returns
\* failure, and the path of a backup file created for it is shown.
C15_AsStated ==
    \A k \in 1..Len(trace) :
        (/\ trace[k].ev \in {"install", "remove", "cache_clean", "update_cmd",
                              "orphans_remove"}
         /\ ~trace[k].ok)
        => AbortedAt(k)

\* C15, amended: the same for every mutating command but the cache clean of a
\* purge; a failed cache clean is the last command of the removal, which has
\* succeeded by then and returns success.
C15_AbortOnFailure ==
    \A k \in 1..Len(trace) :
        /\ (/\ trace[k].ev \in {"install", "remove", "update_cmd", "orphans_remove"}
            /\ ~trace[k].ok)
           => AbortedAt(k)
        /\ (trace[k].ev = "cache_clean" /\ ~trace[k].ok)
           => /\ \A j \in (k + 1)..Len(trace) : trace[j].ev \notin CommandEvents
              /\ pc = "action_menu"
              /\ result = "true"
              /\ DidWith("remove", TRUE)

\* C15's case: the first of two update commands failed after a backup file
\* was written; the second command and the orphan probe were not run
C15_Witness ==
    /\ op = "update"
    /\ pc = "action_menu"
    /\ backup_file
    /\ \E k \in 1..Len(trace) :
           /\ trace[k].ev = "update_cmd"
           /\ ~trace[k].ok
           /\ trace[k].arg # <<>>
    /\ ~Did("orphan_probe")
    /\ Did("backup_hint")

\* the positions of the session that are numbered menus: manager selection,
\* action menu, configuration menu, update-mode menu, fuzzy-match selection
NumberedMenus ==
    {"manager_menu", "action_menu", "config_menu", "update_menu", "similar_choice"}

\* the number of the last entry a menu offers; its first is 0
LastEntry(menu) ==
    CASE menu = "manager_menu" -> 4
      [] menu = "action_menu"  -> 7
      [] menu = "config_menu"  -> 6
      [] menu = "update_menu"  -> 4
      [] menu = "similar_choice" -> Len(choices)

\* the selection is a number of an entry the menu offers, or the word that
\* cancels the fuzzy-match selection
Offered(menu, s) ==
    \/ IsInt(s) /\ ParseInt(s) \in 0..LastEntry(menu)
    \/ menu = "similar_choice" /\ Lower(s) = <<"c", "a", "n", "c", "e", "l">>

\* the notices that report a bad selection
InvalidNotices ==
    {"invalid_selection", "invalid_input", "invalid_action", "invalid_update_option"}

\* C16 as stated: in every numbered menu a selection that is not a number or
\* not one of the menu's entries is reported, and the same menu is shown
\* again: the session stays in that menu and no command is run.
C16_InvalidSelectionReshown ==
    [][ (/\ pc \in NumberedMenus
         /\ ~Offered(pc, selection')
         /\ selection' \notin {KeyboardInterrupt, EOFError})
        => /\ pc' = pc
           /\ msg' \in InvalidNotices
           /\ \A k \in (Len(trace) + 1)..Len(trace') :
                  trace'[k].ev \notin CommandEvents ]_vars

\* C17 as stated: every invocation of install_package and remove_package
\* (its first step is the validation of the name) has written, when it
\* returns, a log entry of its outcome with the package name, on every return
\* path: an invalid name, a package that is not installed and a declined
\* reinstall included.
C17_OutcomeLogged ==
    (op \in {"install", "remove"} /\ pc = "action_menu" /\ Did("validate"))
    => \E k \in 1..Len(trace) :
           /\ trace[k].ev \in {"log_info", "log_error"}
           /\ trace[k].arg = package

\* the removal was let through: the name passed validate_package_name and the
\* installed-package query of this call succeeded and listed it
RemovalCleared ==
    /\ DidWith("validate", TRUE)
    /\ ValidatePackageName(package)
    /\ \E k \in 1..Len(trace) :
           /\ trace[k].ev = "listq"
           /\ trace[k].ok
           /\ InList(package, trace[k].arg)

\* the removal has changed something: a backup attempted or written, the
\* removal command or the cache clean run
RemovalActed ==
    \/ Did("backupq") \/ Did("backup_written") \/ backup_file
    \/ Did("remove") \/ Did("cache_clean")

\* C18: remove_package makes a backup and runs a mutating command only for a
\* valid name that the installed-package query of the same call lists; an
\* invalid name, an unlisted package or a failed query returns False with
\* nothing done; the cache clean runs only after a successful removal.
C18_RemoveOnlyInstalled ==
    op = "remove" =>
        /\ RemovalActed => RemovalCleared
        /\ (pc = "action_menu" /\ Did("validate") /\ ~RemovalCleared)
           => (result = "false" /\ ~RemovalActed)
        /\ \A k \in 1..Len(trace) :
               trace[k].ev = "cache_clean" =>
                   \E j \in 1..(k - 1) : trace[j].ev = "remove" /\ trace[j].ok

\* C18's case: a removal whose installed-package query failed has returned
\* False with nothing done
C18_Witness ==
    /\ op = "remove"
    /\ pc = "action_menu"
    /\ ValidatePackageName(package)
    /\ DidWith("listq", FALSE)
    /\ result = "false"
    /\ ~RemovalActed

-----------------------------------------------------------------------------
(* Properties of search_packages *)

\* the line starts with a whitespace character
Indented(l) == l # <<>> /\ IsSpace(l[1])

\* a header line: it contains "/" and does not start with whitespace
HeaderLine(l) == Contains(l, "/") /\ ~Indented(l)

\* the number of "/" in a token
Slashes(tok) == Cardinality({k \in 1..Len(tok) : tok[k] = "/"})

\* a header line of the documented form: repo/name version ...
FullHeader(l) ==
    /\ HeaderLine(l)
    /\ Len(Split(l)) >= 2
    /\ Slashes(Split(l)[1]) = 1

\* well-formed search output: full header lines, each optionally followed by
\* one indented description line
WellFormed(ls) ==
    \A j \in 1..Len(ls) :
        \/ FullHeader(ls[j])
        \/ Indented(ls[j]) /\ j > 1 /\ FullHeader(ls[j - 1])

\* C5 as stated: for well-formed output the records are exactly the header
\* lines, one record per header line, in source order; an indented line never
\* yields a record.
C5_OneRecordPerHeader ==
    (ppc = "done" /\ WellFormed(lines)) =>
        /\ \A k \in 1..Len(origin) : HeaderLine(lines[origin[k]])
        /\ \A j \in 1..Len(lines) :
               HeaderLine(lines[j]) => \E k \in 1..Len(origin) : origin[k] = j
        /\ \A k \in 1..(Len(origin) - 1) : origin[k] < origin[k + 1]

\* C6 as stated: a record's description is the trimmed text of the line after
\* its header line iff that raw line starts with whitespace (a tab included),
\* and is empty otherwise.
C6_DescriptionIffIndented ==
    \A k \in 1..Len(packages) :
        LET j == origin[k] IN
        packages[k].description =
            IF j + 1 <= Len(lines) /\ Indented(lines[j + 1])
            THEN Strip(lines[j + 1]) ELSE <<>>

\* C7 as stated: a header line that is the single token repo/name yields a
\* record with version "unknown"; with a second token the version is that token.
C7_MissingVersionIsUnknown ==
    ppc = "done" =>
        /\ \A j \in 1..Len(lines) :
               (HeaderLine(lines[j]) /\ Len(Split(lines[j])) = 1
                    /\ Slashes(Split(lines[j])[1]) = 1)
               => \E k \in 1..Len(packages) :
                      origin[k] = j /\ packages[k].version = Unknown
        /\ \A k \in 1..Len(packages) :
               Len(Split(lines[origin[k]])) >= 2
               => packages[k].version = Split(lines[origin[k]])[2]

\* C8 as stated: a record comes only from a line whose first token holds
\* exactly one "/", so no record's name or repository contains "/".
C8_ExactlyOneSlash ==
    \A k \in 1..Len(packages) :
        /\ Slashes(Split(lines[origin[k]])[1]) = 1
        /\ ~Contains(packages[k].name, "/")
        /\ ~Contains(packages[k].repo, "/")

\* what the code takes for a parsable line: after trimming it has at least two
\* tokens and the first one contains "/"
Parsable(l) ==
    /\ Len(Split(l)) >= 2
    /\ Contains(Split(l)[1], "/")

\* C9: search_packages never raises and always comes to its return with the
\* index inside the list; a line that yields nothing stops nothing: at the
\* return every parsable line, also one after a malformed line, has its record.
C9_ParserTotal ==
    /\ ppc # "raised"
    /\ idx <= Len(lines) + 1
    /\ (ppc = "scan" /\ idx > Len(lines)) => ENABLED ScanReturn
    /\ ppc = "done" =>
           /\ \A j \in 1..Len(lines) :
                  Parsable(lines[j]) <=> \E k \in 1..Len(origin) : origin[k] = j
           /\ Len(packages) = Len(origin)

\* C9's case: the scan is over, a line with "/" that yielded nothing is
\* followed by a line that did yield a record
C9_Witness ==
    /\ ppc = "done"
    /\ \E j \in 1..Len(lines) :
           /\ Contains(lines[j], "/")
           /\ ~Parsable(lines[j])
           /\ \E k \in 1..Len(origin) : origin[k] > j

-----------------------------------------------------------------------------
(* Properties of the fuzzy resolution step *)

\* the longest common block of a and b in the ranges: of the longest, the one
\* that starts earliest in a, and of those the one earliest in b
LongestCommonBlock(a, b, alo, ahi, blo, bhi) ==
    LET size(i, j) == IndexedRunLen(a, b, i, j, ahi, bhi, {})
        pairs == (alo..(ahi - 1)) \X (blo..(bhi - 1))
        longest(p) == \A q \in pairs : size(q[1], q[2]) <= size(p[1], p[2])
        first == CHOOSE p \in pairs :
                    /\ longest(p)
                    /\ \A q \in pairs :
                           longest(q) =>
                               \/ p[1] < q[1]
                               \/ p[1] = q[1] /\ p[2] <= q[2]
    IN  <<first[1], first[2], size(first[1], first[2])>>

\* the total size of the common blocks: the longest common block, then the
\* same on the remainders to its left and to its right
RECURSIVE CommonBlocks(_, _, _, _, _, _)
CommonBlocks(a, b, alo, ahi, blo, bhi) ==
    IF alo >= ahi \/ blo >= bhi THEN 0
    ELSE LET m == LongestCommonBlock(a, b, alo, ahi, blo, bhi)
         IN  IF m[3] = 0 THEN 0
             ELSE m[3] + CommonBlocks(a, b, alo, m[1], blo, m[2])
                       + CommonBlocks(a, b, m[1] + m[3], ahi, m[2] + m[3], bhi)

\* the similarity of two strings: twice the total size of their common
\* blocks over the sum of their lengths
Similarity(x, word) ==
    CalculateRatio(CommonBlocks(x, word, 1, Len(x) + 1, 1, Len(word) + 1),
                   Len(x) + Len(word))

\* the general part of C10: at most n names, each one of the de-duplicated
\* candidates with similarity >= cutoff, in order of non-increasing similarity
ResolveContract ==
    rpc = "done" =>
        /\ Len(similar) <= max_results
        /\ \A k \in 1..Len(similar) :
               /\ \E m \in 1..Len(Dedupe(candidates)) :
                      Dedupe(candidates)[m] = similar[k]
               /\ FracGE(Similarity(similar[k], query), cutoff)
        /\ \A k \in 1..(Len(similar) - 1) :
               FracGE(Similarity(similar[k], query), Similarity(similar[k + 1], query))

\* the inputs of the documented scenario
FirefoxScenario ==
    /\ rpc = "done"
    /\ query = Firefox
    /\ candidates = <<Firefox, FirefoxEsr, Chromium>>
    /\ max_results = DefaultMaxResults
    /\ cutoff = DefaultCutoff

\* C10 as stated: the resolver returns at most n names, each one of the
\* de-duplicated candidates with similarity >= cutoff, in order of
\* non-increasing similarity; and in the scenario the result starts with
\* "firefox" and lists "firefox-esr" before "chromium".
C10_AsStated ==
    /\ ResolveContract
    /\ FirefoxScenario =>
           /\ similar # <<>> /\ similar[1] = Firefox
           /\ \E i, j \in 1..Len(similar) :
                  i < j /\ similar[i] = FirefoxEsr /\ similar[j] = Chromium

\* the position of a name in the de-duplicated candidate list (its first-seen
\* position), 0 when it is not there
FirstSeen(x) ==
    LET u == Dedupe(candidates) IN
    IF \E m \in 1..Len(u) : u[m] = x
    THEN CHOOSE m \in 1..Len(u) : u[m] = x
    ELSE 0

\* two names with the same similarity to the query
SameScore(x, y) ==
    /\ FracGE(Similarity(x, query), Similarity(y, query))
    /\ FracGE(Similarity(y, query), Similarity(x, query))

\* C11 as stated: two distinct candidates with the same similarity that both
\* clear the cutoff are returned in their first-seen candidate order, and when
\* truncation to max_results drops one of them, it drops the later-seen one.
C11_TiesInCandidateOrder ==
    rpc = "done" =>
        /\ \A i, j \in 1..Len(similar) :
               (i < j /\ SameScore(similar[i], similar[j]))
               => FirstSeen(similar[i]) < FirstSeen(similar[j])
        /\ \A i \in 1..Len(similar) :
               \A m \in 1..Len(Dedupe(candidates)) :
                   LET x == Dedupe(candidates)[m] IN
                   (/\ FracGE(Similarity(x, query), cutoff)
                    /\ SameScore(x, similar[i])
                    /\ ~InList(x, similar))
                   => FirstSeen(similar[i]) < m

-----------------------------------------------------------------------------
(* Properties of validate_package_name *)

\* the names the documented pattern describes: not empty, an alphanumeric
\* first, then alphanumerics and @ . _ + - only, at most 255 characters
MatchesPattern(s) ==
    /\ s # <<>>
    /\ IsAlnum(s[1])
    /\ \A k \in 2..Len(s) : NameChar(s[k])
    /\ Len(s) <= MaxNameLen

\* C12 as stated: validate_package_name accepts a name if and only if it is
\* non-empty, starts with an alphanumeric, continues with alphanumerics and
\* @ . _ + - only and has at most 255 characters; so a name with whitespace
\* anywhere, a newline at the end included, is rejected.
C12_AcceptsIffPattern ==
    pc = "validated" => (result = "true" <=> MatchesPattern(package))

-----------------------------------------------------------------------------
(* Properties of run_command *)

-----------------------------------------------------------------------------
(* Properties of the menu install flow *)

\* event k of the history is of this kind and carries this name
IsEvent(k, e, name) == trace[k].ev = e /\ trace[k].arg = name

\* C19: the name in an install command of the menu flow is the name in hand,
\* which is either the typed name, found by check_package_exists, or a name
\* picked by number from the list of close matches; it has passed
\* validate_package_name before the command; and after a cancellation or an
\* invalid selection no installed-list query, backup or install command is
\* run for the request.
C19_InstallTarget ==
    op = "install" =>
        /\ \A k \in 1..Len(trace) :
               trace[k].ev = "install" =>
                   /\ trace[k].arg = package
                   /\ MatchesPattern(package)
                   /\ \E j \in 1..(k - 1) :
                          IsEvent(j, "validate", package) /\ trace[j].ok
                   /\ \/ /\ package = typed
                         /\ \E j \in 1..(k - 1) : IsEvent(j, "found", typed)
                         /\ ~Did("fuzzy_search")
                      \/ /\ \E j \in 1..(k - 1) : IsEvent(j, "select", package)
                         /\ InList(package, choices)
                         /\ ~Did("found")
        /\ Did("cancel") =>
               /\ pc = "action_menu"
               /\ result = "none"
               /\ ~Did("validate") /\ ~Did("listq")
               /\ ~Did("backupq") /\ ~Did("backup_written") /\ ~Did("install")

\* C19's case: the typed name was not found, another name was picked from the
\* list and installed
C19_Witness ==
    /\ op = "install"
    /\ package # typed
    /\ \E k \in 1..Len(trace) : IsEvent(k, "select", package)
    /\ \E k \in 1..Len(trace) : IsEvent(k, "install", package) /\ trace[k].ok

====
